---- MODULE Spec2Model ----
(***************************************************************************)
(* Model of the multi-step workflow orchestrator of medical-mirror-observer *)
(* (server/src/integrations/orchestrator.js, held in                       *)
(* src/server/src/storage/references-store.js) and of the part of the      *)
(* Claude Team hub client it calls (claude-team-client.js).                 *)
(*                                                                         *)
(* One run of executeWorkflow is a state machine.  The code runs           *)
(* synchronously between two suspension points (the `await executeStep`);  *)
(* every action below is one such synchronous stretch.                     *)
(***************************************************************************)
EXTENDS Integers, Sequences, FiniteSets, TLC

VARIABLES
    hasSteps,        \* whether workflow.steps is an array at all
    steps,           \* workflow.steps (read only)
    context,         \* workflow.context, the caller's initial context (read only)
    hub,             \* state of the hub client's socket `ws`
    pc,              \* position of the run: "init", "await", "returned", "rejected"
    i,               \* the loop variable of executeWorkflow (0-based)
    results,         \* the local `results`
    currentContext,  \* the local `currentContext`
    pending,         \* the promise of executeStep the run is awaiting
    calls,           \* per attempted step: the params it was given, the remote
                     \* requests issued, the response, the time it slept,
                     \* how its promise settled
    notes,           \* broadcasts the engine handed to claudeTeamClient.broadcast
    ret,             \* what executeWorkflow returned (or that it rejected)
    fn,              \* the helper called on its own: "none" before the call
    arg,             \* the `params` argument of that call
    outcome,         \* what that call returned or threw
    parked,          \* the arguments and locals of a second, concurrent call
                     \* of executeWorkflow while the first one is running
    req,             \* req.body of the POST /execute being handled
    reply,           \* the response the route handler has sent (`res`), if any
    health,          \* the local `health` of getServicesHealth
    probing,         \* the service whose /health that call is awaiting
    probed,          \* how each probe of that call ended, in order
    isConnected,     \* the flag `isConnected` of the hub client
    ws,              \* the hub client's `ws`: 0 for null, else the number of
                     \* the socket in `sockets`
    sockets,         \* the readyState of every socket the client created
    reconnectTimer,  \* whether `reconnectTimer` holds a timer (is not null)
    timers,          \* the number of reconnect timeouts pending in the event loop
    lastCall         \* the last of connectToHub / disconnectFromHub the
                     \* application called

\* the variables of a call of one helper (interpolateParams,
\* evaluateCondition) outside any run; its `context` argument is `context`
helperVars == <<fn, arg, outcome>>

\* the variables of the handler of POST /execute around its run
routeVars == <<req, reply>>

\* the variables of a call of getServicesHealth
healthVars == <<health, probing, probed>>

\* the variables outside the calls of executeWorkflow that the hub's
\* socket events leave alone, and all of them
quietVars == <<helperVars, routeVars, healthVars, reconnectTimer, timers,
               lastCall>>
socketVars == <<ws, sockets>>
clientVars == <<socketVars, reconnectTimer, timers, lastCall>>
outerVars == <<quietVars, isConnected, socketVars>>

vars == <<hasSteps, steps, context, hub, pc, i, results, currentContext,
          pending, calls, notes, ret, fn, arg, outcome, parked,
          req, reply, health, probing, probed, isConnected,
          ws, sockets, reconnectTimer, timers, lastCall>>

-----------------------------------------------------------------------------
(* Bounds of the model.                                                    *)

\* longest workflow of Spec
MaxSteps == 3

\* longest workflow of SpecDispatch, whose steps range over every
\* dispatcher, action and optional flag
MaxDispatchSteps == 1

\* longest workflow of each of the two concurrent runs of SpecConcurrent
MaxConcurrentSteps == 2

\* longest workflow of SpecTerminating
MaxTerminatingSteps == 2

\* longest custom workflow posted to the route in SpecRoute
MaxRouteSteps == 2

\* most sockets the hub client creates in SpecClient
MaxSockets == 4

\* longest workflow of SpecBuiltins, whose steps are the built-in
\* condition and delay steps and steps that read what they return
MaxBuiltinSteps == 2

\* deepest nesting of the params handed to interpolateParams on its own
MaxDepth == 2

-----------------------------------------------------------------------------
(* JavaScript values.  Every value is a record of one shape, so that any   *)
(* two values can be compared.  A string is a sequence of tokens; a token  *)
(* is either a piece of literal text or one whole "{{name}}" placeholder.  *)
(* An object is the sequence of its own enumerable entries <<key, value>>  *)
(* in insertion order (what Object.entries and the spread operator see).   *)

Str(toks) == [t |-> "string",    s |-> toks, n |-> 0, o |-> <<>>]
Num(k)    == [t |-> "number",    s |-> <<>>, n |-> k, o |-> <<>>]
Bool(b)   == [t |-> "boolean",   s |-> <<>>, n |-> IF b THEN 1 ELSE 0, o |-> <<>>]
Null      == [t |-> "null",      s |-> <<>>, n |-> 0, o |-> <<>>]
Undef     == [t |-> "undefined", s |-> <<>>, n |-> 0, o |-> <<>>]
Obj(es)   == [t |-> "object",    s |-> <<>>, n |-> 0, o |-> es]
Arr(es)   == [t |-> "array",     s |-> <<>>, n |-> 0, o |-> es]

\* a function, known by its name only
Fn(name)  == [t |-> "function",  s |-> <<name>>, n |-> 0, o |-> <<>>]

\* typeof v === 'object' (true of null as well)
TypeofObject(v) == v.t \in {"object", "array", "null"}

\* the truthiness of v in a condition
Truthy(v) ==
    CASE v.t = "undefined" -> FALSE
      [] v.t = "null"      -> FALSE
      [] v.t = "boolean"   -> v.n = 1
      [] v.t = "number"    -> v.n # 0
      [] v.t = "string"    -> v.s # <<>>
      [] OTHER             -> TRUE

\* own property lookup obj[k] on a sequence of entries
RECURSIVE Get(_, _)
Get(es, k) ==
    IF es = <<>> THEN Undef
    ELSE IF es[1][1] = k THEN es[1][2]
    ELSE Get(Tail(es), k)

HasKey(es, k) == \E j \in 1..Len(es) : es[j][1] = k

\* the properties every plain object inherits from Object.prototype, as
\* far as a placeholder or a condition field of the model can name them
PrototypeKeys == {"constructor"}

\* obj[k] on a plain object: its own property, else the inherited one
Lookup(es, k) ==
    IF HasKey(es, k) THEN Get(es, k)
    ELSE IF k \in PrototypeKeys THEN Fn("Object")
    ELSE Undef

\* obj[k] = v: an existing key keeps its place, a new key goes last
Put(es, k, v) ==
    IF HasKey(es, k)
    THEN [j \in 1..Len(es) |-> IF es[j][1] = k THEN <<k, v>> ELSE es[j]]
    ELSE Append(es, <<k, v>>)

\* { ...a, ...b }
RECURSIVE Spread(_, _)
Spread(a, b) ==
    IF b = <<>> THEN a
    ELSE Spread(Put(a, b[1][1], b[1][2]), Tail(b))

-----------------------------------------------------------------------------
(* Strings.  The regular expression /\{\{(\w+)\}\}/g matches exactly the  *)
(* placeholder tokens; PlaceholderKey gives the captured name, "" for a    *)
(* token the expression does not match.                                    *)

PlaceholderKey(tok) ==
    CASE tok = "{{x}}" -> "x"
      [] tok = "{{y}}" -> "y"
      [] tok = "{{k}}" -> "k"
      [] tok = "{{pass}}" -> "pass"
      [] tok = "{{delayed}}" -> "delayed"
      [] tok = "{{constructor}}" -> "constructor"
      [] tok = "{{athenaUrl}}" -> "athenaUrl"
      [] tok = "{{patientId}}" -> "patientId"
      [] tok = "{{capturedData}}" -> "capturedData"
      [] tok = "{{analysisResult}}" -> "analysisResult"
      [] tok = "{{anomalySummary}}" -> "anomalySummary"
      [] OTHER -> ""

Digit(k) ==
    CASE k = 0 -> "0" [] k = 1 -> "1" [] k = 2 -> "2" [] k = 3 -> "3"
      [] k = 4 -> "4" [] k = 5 -> "5" [] k = 6 -> "6" [] k = 7 -> "7"
      [] k = 8 -> "8" [] k = 9 -> "9"

RECURSIVE NumText(_)
NumText(k) ==
    IF k < 0 THEN "-" \o NumText(0 - k)
    ELSE IF k < 10 THEN Digit(k)
    ELSE NumText(k \div 10) \o Digit(k % 10)

\* the string form of an integer, one token per character
RECURSIVE NumToks(_)
NumToks(k) ==
    IF k < 0 THEN <<"-">> \o NumToks(0 - k)
    ELSE IF k < 10 THEN <<Digit(k)>>
    ELSE NumToks(k \div 10) \o <<Digit(k % 10)>>

\* the text of a token sequence as one property key
RECURSIVE Text(_)
Text(toks) == IF toks = <<>> THEN "" ELSE toks[1] \o Text(Tail(toks))

\* String(v), as a token sequence
RECURSIVE ToStringToks(_)
ToStringToks(v) ==
    CASE v.t = "string"    -> v.s
      [] v.t = "number"    -> NumToks(v.n)
      [] v.t = "boolean"   -> IF v.n = 1 THEN <<"true">> ELSE <<"false">>
      [] v.t = "null"      -> <<"null">>
      [] v.t = "undefined" -> <<"undefined">>
      [] v.t = "object"    -> <<"[object Object]">>
      [] v.t = "function"  -> <<"function ", v.s[1], "() { [native code] }">>
      [] v.t = "array"     ->
            IF v.o = <<>> THEN <<>>
            ELSE LET head == IF v.o[1][2].t \in {"null", "undefined"}
                             THEN <<>> ELSE ToStringToks(v.o[1][2])
                 IN IF Len(v.o) = 1 THEN head
                    ELSE head \o <<",">> \o ToStringToks(Arr(Tail(v.o)))

-----------------------------------------------------------------------------
(* Context Interpolator and Condition Evaluator (the HELPERS section).     *)

\* the replacement without the g flag: the first match only
RECURSIVE InterpolateStringFirstMatch(_, _)
InterpolateStringFirstMatch(toks, ctx) ==
    IF toks = <<>> THEN <<>>
    ELSE LET varName == PlaceholderKey(toks[1])
             found   == varName # "" /\ Lookup(ctx, varName).t # "undefined"
             piece   == IF found THEN ToStringToks(Lookup(ctx, varName))
                        ELSE <<toks[1]>>
         IN IF varName = ""
            THEN piece \o InterpolateStringFirstMatch(Tail(toks), ctx)
            ELSE piece \o Tail(toks)

\* the replacement scanned again: a value put in for a placeholder is
\* itself searched for placeholders
RECURSIVE InterpolateStringRescanning(_, _)
InterpolateStringRescanning(toks, ctx) ==
    IF toks = <<>> THEN <<>>
    ELSE LET varName == PlaceholderKey(toks[1])
             found   == varName # "" /\ Lookup(ctx, varName).t # "undefined"
             piece   == IF found
                        THEN InterpolateStringRescanning(
                                 ToStringToks(Lookup(ctx, varName)), ctx)
                        ELSE <<toks[1]>>
         IN piece \o InterpolateStringRescanning(Tail(toks), ctx)

\* value.replace(/\{\{(\w+)\}\}/g, (match, varName) =>
\*     context[varName] !== undefined ? context[varName] : match)
RECURSIVE InterpolateString(_, _)
InterpolateString(toks, ctx) ==
    IF toks = <<>> THEN <<>>
    ELSE LET varName == PlaceholderKey(toks[1])
             found   == varName # "" /\ Lookup(ctx, varName).t # "undefined"
             piece   == IF found THEN ToStringToks(Lookup(ctx, varName))
                        ELSE <<toks[1]>>
         IN piece \o InterpolateString(Tail(toks), ctx)

\* the loop of interpolateParams over Object.entries(params)
RECURSIVE InterpolateEntries(_, _)
InterpolateEntries(es, ctx) ==
    IF es = <<>> THEN <<>>
    ELSE LET key   == es[1][1]
             value == es[1][2]
             out   == CASE value.t = "string" ->
                               Str(InterpolateString(value.s, ctx))
                        [] value.t \in {"object", "array"} ->
                               Obj(InterpolateEntries(value.o, ctx))
                        [] OTHER -> value
         IN <<<<key, out>>>> \o InterpolateEntries(Tail(es), ctx)

\* interpolateParams(params, context): always a fresh plain object
interpolateParams(params, ctx) == Obj(InterpolateEntries(params.o, ctx))

\* interpolation in place: the strings are replaced inside `params` itself
\* (params[key] = ... instead of result[key] = ...)
paramsAfterInterpolateInPlace(params, ctx) ==
    IF params.t \in {"object", "array"}
    THEN [params EXCEPT !.o = InterpolateEntries(params.o, ctx)]
    ELSE params

\* the object handed in as `params`, once interpolateParams has returned:
\* every assignment of the function is to its own new `result`, at every
\* depth, so the argument is as it was
paramsAfterInterpolate(params, ctx) == params

\* a === b; two objects are never the same object here, because every
\* object inside resolvedParams was freshly built by interpolateParams
StrictEquals(a, b) ==
    /\ a.t = b.t
    /\ CASE a.t = "string" -> Text(a.s) = Text(b.s)
         [] a.t \in {"number", "boolean"} -> a.n = b.n
         [] a.t \in {"null", "undefined"} -> TRUE
         [] OTHER -> FALSE

\* ToNumber(v): nan, or the number n
NumericText(txt) == {k \in 0..99 : NumText(k) = txt}
ToNumber(v) ==
    CASE v.t \in {"number", "boolean"} -> [nan |-> FALSE, n |-> v.n]
      [] v.t = "null"      -> [nan |-> FALSE, n |-> 0]
      [] v.t = "undefined" -> [nan |-> TRUE,  n |-> 0]
      [] OTHER ->
            LET txt == Text(ToStringToks(v))
            IN IF txt = "" THEN [nan |-> FALSE, n |-> 0]
               ELSE IF NumericText(txt) # {}
                    THEN [nan |-> FALSE, n |-> CHOOSE k \in NumericText(txt) : TRUE]
                    ELSE [nan |-> TRUE, n |-> 0]

\* the characters of the strings that are compared or searched, in the
\* order of their code units
CharOrder == <<"-", "0", "1", "2", "3", "4", "5", "6", "7", "8", "9",
               "a", "b", "c", "d", "e", "f", "i", "l", "n", "r", "s", "t",
               "u">>
CharRank(c) == CHOOSE r \in 1..Len(CharOrder) : CharOrder[r] = c

\* the characters of one token
TokenChars(tok) ==
    CASE tok \in {CharOrder[r] : r \in 1..Len(CharOrder)} -> <<tok>>
      [] tok = "true"      -> <<"t", "r", "u", "e">>
      [] tok = "false"     -> <<"f", "a", "l", "s", "e">>
      [] tok = "null"      -> <<"n", "u", "l", "l">>
      [] tok = "undefined" -> <<"u", "n", "d", "e", "f", "i", "n", "e", "d">>

\* the characters of a string
RECURSIVE Chars(_)
Chars(toks) ==
    IF toks = <<>> THEN <<>> ELSE TokenChars(toks[1]) \o Chars(Tail(toks))

\* a < b for two strings of characters: the first differing code unit
\* decides, a proper prefix is smaller
RECURSIVE TextLess(_, _)
TextLess(a, b) ==
    IF b = <<>> THEN FALSE
    ELSE IF a = <<>> THEN TRUE
    ELSE IF a[1] = b[1] THEN TextLess(Tail(a), Tail(b))
    ELSE CharRank(a[1]) < CharRank(b[1])

\* a <= b
LessThanOrEqual(a, b) ==
    IF a.t = "string" /\ b.t = "string"
    THEN ~TextLess(Chars(b.s), Chars(a.s))
    ELSE LET na == ToNumber(a)
             nb == ToNumber(b)
         IN ~na.nan /\ ~nb.nan /\ na.n <= nb.n

\* a < b: two strings are compared as text, any other pair of operands
\* goes through ToNumber and is false when either is NaN
LessThan(a, b) ==
    IF a.t = "string" /\ b.t = "string"
    THEN TextLess(Chars(a.s), Chars(b.s))
    ELSE LET na == ToNumber(a)
             nb == ToNumber(b)
         IN ~na.nan /\ ~nb.nan /\ na.n < nb.n

\* hay.includes(needle), character by character
Includes(hay, needle) ==
    LET h == Chars(hay)
        n == Chars(needle)
    IN \E off \in 0..(Len(h) - Len(n)) :
           SubSeq(h, off + 1, off + Len(n)) = n

\* the state of a promise: fulfilled with a value, rejected with an error,
\* or pending on a remote request or on a timer of d milliseconds after
\* which it is fulfilled with v
Value(v)    == [k |-> "value", v |-> v,     e |-> <<>>, to |-> "",  d |-> Undef]
Thrown(msg) == [k |-> "throw", v |-> Undef, e |-> msg,  to |-> "",  d |-> Undef]
Fetch(url)  == [k |-> "fetch", v |-> Undef, e |-> <<>>, to |-> url, d |-> Undef]
Sleep(d, v) == [k |-> "sleep", v |-> v,     e |-> <<>>, to |-> "",  d |-> d]
NoCall      == [k |-> "none",  v |-> Undef, e |-> <<>>, to |-> "",  d |-> Undef]

\* evaluateCondition(params, context): the {pass} object, or the error
evaluateCondition(params, ctx) ==
    LET field      == Get(params.o, "field")
        operator   == Get(params.o, "operator")
        value      == Get(params.o, "value")
        fieldValue == Lookup(ctx, Text(ToStringToks(field)))
        op         == Text(ToStringToks(operator))
        Pass(b)    == Value(Obj(<<<<"pass", Bool(b)>>>>))
    IN  CASE operator.t = "string" /\ op = "equals" ->
                 Pass(StrictEquals(fieldValue, value))
          [] operator.t = "string" /\ op = "notEquals" ->
                 Pass(~StrictEquals(fieldValue, value))
          [] operator.t = "string" /\ op = "greaterThan" ->
                 Pass(LessThan(value, fieldValue))
          [] operator.t = "string" /\ op = "lessThan" ->
                 Pass(LessThan(fieldValue, value))
          [] operator.t = "string" /\ op = "contains" ->
                 Pass(Includes(ToStringToks(fieldValue), ToStringToks(value)))
          [] operator.t = "string" /\ op = "exists" ->
                 Pass(fieldValue.t \notin {"undefined", "null"})
          [] OTHER -> Thrown(<<"Unknown operator: ", op>>)

-----------------------------------------------------------------------------
(* The hub client (claude-team-client.js), as far as the engine uses it.   *)
(* hub = "none":   ws is null or its readyState is not OPEN                *)
(* hub = "open":   ws is OPEN and ws.send works                            *)
(* hub = "broken": ws is OPEN and ws.send (or JSON.stringify) throws       *)

HubStates == {"none", "open", "broken"}

\* `ws` and its readyState for each of them, where the sockets are not
\* followed one by one: no socket, or the one socket, which is OPEN
wsOf(h) == IF h = "none" THEN 0 ELSE 1
socketsOf(h) == IF h = "none" THEN <<>> ELSE <<"OPEN">>

\* sendMessage without its try/catch around ws.send
sendMessageUncaught(h) ==
    IF h = "none" THEN "dropped"
    ELSE IF h = "broken" THEN "threw"
    ELSE "sent"

\* sendMessage with neither the test of the socket nor the try/catch:
\* ws.send throws unless the socket is open and working
sendMessageUnchecked(h) == IF h = "open" THEN "sent" ELSE "threw"

\* sendMessage(message): "sent" is `return true`, "dropped" is
\* `return false`; "threw" would be an exception leaving sendMessage
sendMessage(h) ==
    IF h = "none" THEN "dropped"
    ELSE IF h = "broken" THEN "dropped"
    ELSE "sent"

\* broadcast writing to the socket itself, with neither the readiness
\* test nor the try/catch of sendMessage
broadcastUnguarded(h) == IF h = "open" THEN "sent" ELSE "threw"

\* broadcast(content, category) returns what sendMessage returns
broadcast(h) == sendMessage(h)

-----------------------------------------------------------------------------
(* Service Action Dispatchers.  Each gives the state of the promise the    *)
(* dispatcher returns once its synchronous part has run: a pending fetch,  *)
(* a value, or an error.                                                   *)

\* the observer dispatcher with a default branch that queries the
\* observer instead of throwing
executeObserverActionDefaultGet(action, params) ==
    CASE action = "analyze"       -> Fetch("observer/api/analyze")
      [] action = "getEvents"     -> Fetch("observer/api/events")
      [] action = "getReferences" -> Fetch("observer/api/references")
      [] action = "storeEvent"    -> Fetch("observer/api/events")
      [] OTHER -> Fetch("observer/api/events")

executeObserverAction(action, params) ==
    CASE action = "analyze"       -> Fetch("observer/api/analyze")
      [] action = "getEvents"     -> Fetch("observer/api/events")
      [] action = "getReferences" -> Fetch("observer/api/references")
      [] action = "storeEvent"    -> Fetch("observer/api/events")
      [] OTHER -> Thrown(<<"Unknown observer action: ", action>>)

executeBrowserAction(action, params) == Fetch("claudeTeam/webhook")

\* the claudeTeam dispatcher failing the step when the hub client could
\* not send: if (!claudeTeamClient.broadcast(...)) throw new Error(...)
executeClaudeTeamActionChecked(action, params, h) ==
    CASE action = "broadcast" ->
             IF broadcast(h) # "sent" THEN Thrown(<<"Not connected to hub">>)
             ELSE Value(Obj(<<<<"broadcast", Bool(TRUE)>>>>))
      [] action = "askTeam" ->
             IF sendMessage(h) # "sent" THEN Thrown(<<"Not connected to hub">>)
             ELSE Value(Obj(<<<<"asked", Bool(TRUE)>>>>))
      [] action = "getStatus" -> Fetch("claudeTeam/status")
      [] OTHER -> Thrown(<<"Unknown claudeTeam action: ", action>>)

executeClaudeTeamAction(action, params, h) ==
    CASE action = "broadcast" ->
             IF broadcast(h) = "threw" THEN Thrown(<<"send failed">>)
             ELSE Value(Obj(<<<<"broadcast", Bool(TRUE)>>>>))
      [] action = "askTeam" ->
             IF sendMessage(h) = "threw" THEN Thrown(<<"send failed">>)
             ELSE Value(Obj(<<<<"asked", Bool(TRUE)>>>>))
      [] action = "getStatus" -> Fetch("claudeTeam/status")
      [] OTHER -> Thrown(<<"Unknown claudeTeam action: ", action>>)

executeSccAction(action, params) ==
    CASE action = "sendFeedback" -> Fetch("scc/api/debug/feedback")
      [] action = "getHealth"    -> Fetch("sentinel/health")
      [] OTHER -> Thrown(<<"Unknown scc action: ", action>>)

\* what became of the message a claudeTeam step handed to the hub client:
\* the return of broadcast / sendMessage, "" for a step that hands none
handedToHub(step, h) ==
    IF step.type = "claudeTeam" /\ step.action = "broadcast" THEN broadcast(h)
    ELSE IF step.type = "claudeTeam" /\ step.action = "askTeam" THEN sendMessage(h)
    ELSE ""

\* `await fetch(...)` followed by `await res.json()`: a network error
\* rejects the fetch, a body that is not JSON rejects json(); the status
\* of the response (res.ok) is not looked at
fetchJson(r) ==
    IF r.net = "error" THEN Thrown(<<"fetch failed">>)
    ELSE IF ~r.json THEN Thrown(<<"Unexpected token in JSON">>)
    ELSE Value(r.body)

-----------------------------------------------------------------------------
(* Step Executor.                                                          *)

\* the params resolved, except that `field` is kept as it was written
resolveParamsKeepingField(step, ctx) ==
    LET given    == IF step.params.t = "undefined" THEN Obj(<<>>)
                    ELSE step.params
        resolved == interpolateParams(given, ctx)
    IN IF HasKey(given.o, "field")
       THEN Obj(Put(resolved.o, "field", Get(given.o, "field")))
       ELSE resolved

\* const { type, action, params = {} } = step;
\* const resolvedParams = interpolateParams(params, context);
resolveParams(step, ctx) ==
    interpolateParams(IF step.params.t = "undefined" THEN Obj(<<>>)
                      ELSE step.params, ctx)

\* the default duration of a delay step, in milliseconds
DefaultDelay == 1000

\* await sleep(resolvedParams.ms || 1000);
\* return { delayed: resolvedParams.ms };
delayStep(resolvedParams) ==
    LET ms == Get(resolvedParams.o, "ms")
    IN Sleep(IF Truthy(ms) THEN ms ELSE Num(DefaultDelay),
             Obj(<<<<"delayed", ms>>>>))

\* executeStep(step, context) up to its first suspension
executeStep(step, ctx, h) ==
    LET resolvedParams == resolveParams(step, ctx)
    IN  CASE step.type = "observer" ->
                 executeObserverAction(step.action, resolvedParams)
          [] step.type = "browser" ->
                 executeBrowserAction(step.action, resolvedParams)
          [] step.type = "claudeTeam" ->
                 executeClaudeTeamAction(step.action, resolvedParams, h)
          [] step.type = "scc" ->
                 executeSccAction(step.action, resolvedParams)
          [] step.type = "delay" ->
                 delayStep(resolvedParams)
          [] step.type = "condition" ->
                 evaluateCondition(resolvedParams, ctx)
          [] OTHER -> Thrown(<<"Unknown step type: ", step.type>>)

-----------------------------------------------------------------------------
(* Workflow Engine: the records it builds.                                 *)

StepSuccess(name, result) ==
    [step |-> name, success |-> TRUE, result |-> result, error |-> <<>>]

StepFailure(name, message) ==
    [step |-> name, success |-> FALSE, result |-> Undef, error |-> message]

\* every notification sent with the category `update`
NoteAlwaysUpdate(kind, category) == [kind |-> kind, category |-> "update"]

Note(kind, category) == [kind |-> kind, category |-> category]

NoResponse == [net |-> "none", ok |-> FALSE, json |-> FALSE, body |-> Undef]

NoReturn ==
    [status |-> "none", success |-> FALSE, completedSteps |-> 0,
     results |-> <<>>, context |-> Undef, error |-> <<>>]

\* no second call of executeWorkflow
NoRun ==
    [hasSteps |-> FALSE, steps |-> <<>>, context |-> Undef, pc |-> "none",
     i |-> 0, results |-> <<>>, currentContext |-> <<>>, pending |-> NoCall,
     calls |-> <<>>, notes |-> <<>>, ret |-> NoReturn]

\* no `health` object: no call of getServicesHealth so far
NoHealth ==
    [observer |-> "", claudeTeam |-> "", sccSentinel |-> "", claudeTeamWs |-> ""]

\* no response sent (yet); `keys` are the properties of the JSON body
NoRes ==
    [code |-> 0, keys |-> {}, success |-> FALSE, workflow |-> "",
     completedSteps |-> 0, results |-> <<>>, error |-> <<>>,
     status |-> "", services |-> NoHealth]

\* req.body.workflow: absent, or an object with or without a steps array
\* `context` is the workflow object's own context property, if it has one
NoWorkflow ==
    [t |-> "undefined", name |-> "", hasSteps |-> FALSE, steps |-> <<>>,
     context |-> Undef]

Workflow(name, sts) ==
    [t |-> "object", name |-> name, hasSteps |-> TRUE, steps |-> sts,
     context |-> Undef]

WorkflowWithoutSteps(name) ==
    [t |-> "object", name |-> name, hasSteps |-> FALSE, steps |-> <<>>,
     context |-> Undef]

\* the workflow object w with a context property of its own
WithContext(w, c) == [w EXCEPT !.context = c]

\* no POST /execute is being handled
NoRequest ==
    [posted |-> FALSE, workflowId |-> Undef, workflow |-> NoWorkflow,
     context |-> Undef]

Request(workflowId, workflow, ctx) ==
    [posted |-> TRUE, workflowId |-> workflowId, workflow |-> workflow,
     context |-> ctx]

\* nothing outside the run has happened: no request, no response, no
\* health check; the flag is set while the socket is open
OuterIdle ==
    /\ req = NoRequest
    /\ reply = NoRes
    /\ health = NoHealth
    /\ probing = "none"
    /\ probed = <<>>
    /\ isConnected = (hub # "none")
    /\ ws = wsOf(hub)
    /\ sockets = socketsOf(hub)
    /\ reconnectTimer = FALSE
    /\ timers = 0
    /\ lastCall = "none"

\* the rejection of the promise executeWorkflow returned
Rejected(message) ==
    [status |-> "rejected", success |-> FALSE, completedSteps |-> 0,
     results |-> <<>>, context |-> Undef, error |-> message]

\* the halted result carrying the context merged so far, as the final
\* result does
HaltedResultWithContext(j, res, step) ==
    [status |-> "returned", success |-> FALSE, completedSteps |-> j,
     results |-> res, context |-> Obj(currentContext),
     error |-> <<"Workflow stopped at step: ", step.name>>]

\* the halted result with completedSteps: i + 1
HaltedResultCountingFailed(j, res, step) ==
    [status |-> "returned", success |-> FALSE, completedSteps |-> j + 1,
     results |-> res, context |-> Undef,
     error |-> <<"Workflow stopped at step: ", step.name>>]

\* { success: false, completedSteps: i, results, error }
HaltedResult(j, res, step) ==
    [status |-> "returned", success |-> FALSE, completedSteps |-> j,
     results |-> res, context |-> Undef,
     error |-> <<"Workflow stopped at step: ", step.name>>]

\* the final result with completedSteps counting the successes only
CompleteResultCountingSuccesses(res, ctx) ==
    [status |-> "returned", success |-> TRUE,
     completedSteps |-> Cardinality({k \in 1..Len(res) : res[k].success}),
     results |-> res, context |-> Obj(ctx), error |-> <<>>]

\* the final result with success: results.every(r => r.success)
CompleteResultAllSucceeded(res, ctx) ==
    [status |-> "returned",
     success |-> \A k \in 1..Len(res) : res[k].success,
     completedSteps |-> Len(steps),
     results |-> res, context |-> Obj(ctx), error |-> <<>>]

\* { success: true, completedSteps: steps.length, results, context }
CompleteResult(res, ctx) ==
    [status |-> "returned", success |-> TRUE, completedSteps |-> Len(steps),
     results |-> res, context |-> Obj(ctx), error |-> <<>>]

\* the merge with its operands swapped, { ...result, ...currentContext }:
\* keys already in the context win
mergeResultKeepsOld(ctx, result) ==
    IF Truthy(result) /\ TypeofObject(result) THEN Spread(result.o, ctx)
    ELSE ctx

\* if (result && typeof result === 'object')
\*     currentContext = { ...currentContext, ...result }
mergeResult(ctx, result) ==
    IF Truthy(result) /\ TypeofObject(result) THEN Spread(ctx, result.o)
    ELSE ctx

\* the test of the optional flag, inverted: if (step.optional) return ...
stopsWorkflowInverted(step) == step.optional

\* the optional flag ignored: every failure stops the workflow
stopsWorkflowAlways(step) == TRUE

\* the optional flag honoured for the service steps only
stopsWorkflowUnlessService(step) ==
    \/ ~step.optional
    \/ step.type \notin {"observer", "browser", "claudeTeam", "scc"}

\* if (!step.optional) return ...
stopsWorkflow(step) == ~step.optional

-----------------------------------------------------------------------------
(* Workflow Engine: the run.                                               *)

\* the loop stepping by two after its first iteration (i += 2): every
\* second step is passed over
LoopFromSkipping(j, ctx, res, nts) ==
    LET jj == IF j > 0 /\ j < Len(steps) THEN j + 1 ELSE j
    IN
        /\ i' = jj
        /\ currentContext' = ctx
        /\ results' = res
        /\ IF jj < Len(steps)
           THEN LET call == executeStep(steps[jj + 1], ctx, hub)
                IN /\ pending' = call
                   /\ steps' = [steps EXCEPT ![jj + 1].params =
                                    paramsAfterInterpolate(@, ctx)]
                   /\ calls' = Append(calls,
                         [step    |-> steps[jj + 1].name,
                          fetches |-> IF call.k = "fetch" THEN 1 ELSE 0,
                          params  |-> resolveParams(steps[jj + 1], ctx),
                          resp    |-> NoResponse,
                          slept   |-> call.d,
                          handed  |-> handedToHub(steps[jj + 1], hub),
                          settled |-> IF call.k \in {"value", "throw"}
                                      THEN call ELSE NoCall])
                   /\ notes' = nts
                   /\ pc' = "await"
                   /\ ret' = ret
           ELSE /\ pending' = NoCall
                /\ steps' = steps
                /\ calls' = calls
                /\ notes' = Append(nts, Note("complete", "update"))
                /\ IF broadcast(hub) = "threw"
                   THEN pc' = "rejected" /\ ret' = Rejected(<<"send failed">>)
                   ELSE pc' = "returned" /\ ret' = CompleteResult(res, ctx)

\* the head of the for loop at index j, with the locals as given: either
\* the next step is dispatched and awaited, or the loop is over and the
\* workflow completes
LoopFrom(j, ctx, res, nts) ==
    /\ i' = j
    /\ currentContext' = ctx
    /\ results' = res
    /\ IF j < Len(steps)
       THEN LET call == executeStep(steps[j + 1], ctx, hub)
            IN /\ pending' = call
               /\ steps' = [steps EXCEPT ![j + 1].params =
                                paramsAfterInterpolate(@, ctx)]
               /\ calls' = Append(calls,
                     [step    |-> steps[j + 1].name,
                      fetches |-> IF call.k = "fetch" THEN 1 ELSE 0,
                      params  |-> resolveParams(steps[j + 1], ctx),
                      resp    |-> NoResponse,
                      slept   |-> call.d,
                      handed  |-> handedToHub(steps[j + 1], hub),
                      settled |-> IF call.k \in {"value", "throw"}
                                  THEN call ELSE NoCall])
               /\ notes' = nts
               /\ pc' = "await"
               /\ ret' = ret
       ELSE /\ pending' = NoCall
            /\ steps' = steps
            /\ calls' = calls
            /\ notes' = Append(nts, Note("complete", "update"))
            /\ IF broadcast(hub) = "threw"
               THEN pc' = "rejected" /\ ret' = Rejected(<<"send failed">>)
               ELSE pc' = "returned" /\ ret' = CompleteResult(res, ctx)

\* an exception leaves executeWorkflow: its promise is rejected
Reject(message, ctx, res, nts) ==
    /\ i' = i
    /\ steps' = steps
    /\ currentContext' = ctx
    /\ results' = res
    /\ pending' = NoCall
    /\ calls' = calls
    /\ notes' = nts
    /\ pc' = "rejected"
    /\ ret' = Rejected(message)

\* the catch block dispatching a failed optional step again, in place
\* (i--; continue), as often as it fails
CatchRetryingForever(message, ctx, res, nts) ==
    LET step == steps[i + 1]
        res2 == Append(res, StepFailure(step.name, message))
        nts2 == Append(nts, Note("failed", "blocker"))
    IN  IF stopsWorkflow(step)
        THEN /\ i' = i
             /\ steps' = steps
             /\ currentContext' = ctx
             /\ results' = res2
             /\ pending' = NoCall
             /\ calls' = calls
             /\ notes' = nts2
             /\ pc' = "returned"
             /\ ret' = HaltedResult(i, res2, step)
        ELSE /\ i' = i
             /\ steps' = steps
             /\ currentContext' = ctx
             /\ results' = res
             /\ pending' = executeStep(step, ctx, hub)
             /\ calls' = calls
             /\ notes' = nts
             /\ pc' = "await"
             /\ ret' = ret

\* the catch block merging the failure into the context
\* (currentContext = { ...currentContext, error: error.message })
CatchMergingError(message, ctx, res, nts) ==
    LET step == steps[i + 1]
        res2 == Append(res, StepFailure(step.name, message))
        nts2 == Append(nts, Note("failed", "blocker"))
        ctx2 == Put(ctx, "error", Str(message))
    IN  IF stopsWorkflow(step)
        THEN /\ i' = i
             /\ steps' = steps
             /\ currentContext' = ctx2
             /\ results' = res2
             /\ pending' = NoCall
             /\ calls' = calls
             /\ notes' = nts2
             /\ pc' = "returned"
             /\ ret' = HaltedResult(i, res2, step)
        ELSE LoopFrom(i + 1, ctx2, res2, nts2)

\* the catch block trying a failed step a second time before giving up
CatchRetrying(message, ctx, res, nts) ==
    LET step == steps[i + 1]
        res2 == Append(res, StepFailure(step.name, message))
        nts2 == Append(nts, Note("failed", "blocker"))
    IN  IF Len(calls) <= i + 1
        THEN LoopFrom(i, ctx, res, nts)
        ELSE IF stopsWorkflow(step)
        THEN /\ i' = i
             /\ steps' = steps
             /\ currentContext' = ctx
             /\ results' = res2
             /\ pending' = NoCall
             /\ calls' = calls
             /\ notes' = nts2
             /\ pc' = "returned"
             /\ ret' = HaltedResult(i, res2, step)
        ELSE LoopFrom(i + 1, ctx, res2, nts2)

\* the catch block of iteration i
Catch(message, ctx, res, nts) ==
    LET step == steps[i + 1]
        res2 == Append(res, StepFailure(step.name, message))
        nts2 == Append(nts, Note("failed", "blocker"))
    IN  IF broadcast(hub) = "threw"
        THEN Reject(<<"send failed">>, ctx, res2, nts2)
        ELSE IF stopsWorkflow(step)
        THEN /\ i' = i
             /\ steps' = steps
             /\ currentContext' = ctx
             /\ results' = res2
             /\ pending' = NoCall
             /\ calls' = calls
             /\ notes' = nts2
             /\ pc' = "returned"
             /\ ret' = HaltedResult(i, res2, step)
        ELSE LoopFrom(i + 1, ctx, res2, nts2)

\* executeWorkflow(workflow) is called: everything up to the first await
Start ==
    /\ pc = "init"
    /\ LET nts  == <<Note("start", "update")>>
           ctx0 == IF context.t = "object" THEN context.o ELSE <<>>
       IN  IF broadcast(hub) = "threw"
           THEN Reject(<<"send failed">>, <<>>, <<>>, nts)
           ELSE IF ~hasSteps
           THEN Reject(<<"Cannot read properties of undefined">>,
                       ctx0, <<>>, nts)
           ELSE LoopFrom(0, ctx0, <<>>, nts)
    /\ UNCHANGED <<hasSteps, context, hub>>
    /\ UNCHANGED <<outerVars, parked>>

\* the remote service answers the one request a dispatcher is waiting for
Respond(r) ==
    /\ pc = "await"
    /\ pending.k = "fetch"
    /\ pending' = fetchJson(r)
    /\ calls' = [calls EXCEPT ![Len(calls)].resp = r,
                              ![Len(calls)].settled = fetchJson(r)]
    /\ UNCHANGED <<hasSteps, steps, context, hub, pc, i, results,
                   currentContext, notes, ret>>
    /\ UNCHANGED <<outerVars, parked>>

\* the timer of sleep(ms) fires
Timeout ==
    /\ pc = "await"
    /\ pending.k = "sleep"
    /\ pending' = Value(pending.v)
    /\ calls' = [calls EXCEPT ![Len(calls)].settled = Value(pending.v)]
    /\ UNCHANGED <<hasSteps, steps, context, hub, pc, i, results,
                   currentContext, notes, ret>>
    /\ UNCHANGED <<outerVars, parked>>

\* the engine taking a condition that did not pass for a failed step
ResumeHaltingOnFalse ==
    /\ pc = "await"
    /\ pending.k \in {"value", "throw"}
    /\ IF pending.k = "value" /\ pending.v # Obj(<<<<"pass", Bool(FALSE)>>>>)
       THEN LET step == steps[i + 1]
                res1 == Append(results, StepSuccess(step.name, pending.v))
                ctx1 == mergeResult(currentContext, pending.v)
                nts1 == Append(notes, Note("step", "update"))
            IN  IF broadcast(hub) = "threw"
                THEN Catch(<<"send failed">>, ctx1, res1, nts1)
                ELSE LoopFrom(i + 1, ctx1, res1, nts1)
       ELSE IF pending.k = "value"
       THEN Catch(<<"Condition not met">>, currentContext, results, notes)
       ELSE Catch(pending.e, currentContext, results, notes)
    /\ UNCHANGED <<hasSteps, context, hub>>
    /\ UNCHANGED <<outerVars, parked>>

\* the awaited promise of executeStep is settled: the rest of iteration i
\* and everything after it up to the next await
Resume ==
    /\ pc = "await"
    /\ pending.k \in {"value", "throw"}
    /\ IF pending.k = "value"
       THEN LET step == steps[i + 1]
                res1 == Append(results, StepSuccess(step.name, pending.v))
                ctx1 == mergeResult(currentContext, pending.v)
                nts1 == Append(notes, Note("step", "update"))
            IN  IF broadcast(hub) = "threw"
                THEN Catch(<<"send failed">>, ctx1, res1, nts1)
                ELSE LoopFrom(i + 1, ctx1, res1, nts1)
       ELSE Catch(pending.e, currentContext, results, notes)
    /\ UNCHANGED <<hasSteps, context, hub>>
    /\ UNCHANGED <<outerVars, parked>>

\* the hub socket opens, closes or breaks, at any time
HubEvent(h) ==
    /\ h # hub
    /\ hub' = h
    /\ isConnected' = (h # "none")
    /\ ws' = wsOf(h)
    /\ sockets' = socketsOf(h)
    /\ UNCHANGED <<hasSteps, steps, context, pc, i, results, currentContext,
                   pending, calls, notes, ret>>
    /\ UNCHANGED <<quietVars, parked>>

\* the arguments and locals of the call of executeWorkflow that is running
Locals ==
    [hasSteps |-> hasSteps, steps |-> steps, context |-> context, pc |-> pc,
     i |-> i, results |-> results, currentContext |-> currentContext,
     pending |-> pending, calls |-> calls, notes |-> notes, ret |-> ret]

\* the switch with `currentContext` declared at module level: the one
\* variable is what both calls read and assign
SwitchSharingContext ==
    /\ parked.pc # "none"
    /\ parked' = Locals
    /\ hasSteps' = parked.hasSteps
    /\ steps' = parked.steps
    /\ context' = parked.context
    /\ pc' = parked.pc
    /\ i' = parked.i
    /\ results' = parked.results
    /\ currentContext' = currentContext
    /\ pending' = parked.pending
    /\ calls' = parked.calls
    /\ notes' = parked.notes
    /\ ret' = parked.ret
    /\ UNCHANGED <<hub, outerVars>>

\* between two synchronous stretches the event loop takes up the other
\* call of executeWorkflow: each call has its own `workflow`, `results`,
\* `currentContext`, `i` and awaited promise, the hub client is the one
\* module-level object both calls use
Switch ==
    /\ parked.pc # "none"
    /\ parked' = Locals
    /\ hasSteps' = parked.hasSteps
    /\ steps' = parked.steps
    /\ context' = parked.context
    /\ pc' = parked.pc
    /\ i' = parked.i
    /\ results' = parked.results
    /\ currentContext' = parked.currentContext
    /\ pending' = parked.pending
    /\ calls' = parked.calls
    /\ notes' = parked.notes
    /\ ret' = parked.ret
    /\ UNCHANGED <<hub, outerVars>>

-----------------------------------------------------------------------------
(* Inputs: the workflows a caller can hand in and the answers the remote   *)
(* services can give.                                                      *)

Step(name, type, action, params, optional) ==
    [name |-> name, type |-> type, action |-> action, params |-> params,
     optional |-> optional]

Response(net, ok, json, body) ==
    [net |-> net, ok |-> ok, json |-> json, body |-> body]

NetworkError == Response("error", FALSE, FALSE, Undef)
ErrorPayload == Obj(<<<<"error", Str(<<"boom">>)>>>>)

\* what a remote service can answer to one request: no answer at all, a
\* success with an object or a scalar as its JSON body, a 500 with an
\* error payload
Responses ==
    { NetworkError,
      Response("ok", TRUE,  TRUE,  Obj(<<<<"x", Num(1)>>>>)),
      Response("ok", TRUE,  TRUE,  Obj(<<<<"x", Num(2)>>, <<"y", Str(<<"b">>)>>>>)),
      Response("ok", TRUE,  TRUE,  Num(7)),
      Response("ok", FALSE, TRUE,  ErrorPayload) }

\* the same, and a success carrying an error payload, a 500 whose body is
\* an ordinary object, and a 500 whose body is not JSON
AllResponses ==
    Responses \cup
    { Response("ok", TRUE,  TRUE,  ErrorPayload),
      Response("ok", FALSE, TRUE,  Obj(<<<<"x", Num(1)>>>>)),
      Response("ok", FALSE, FALSE, Undef) }

QueryParams == Obj(<<<<"q", Str(<<"v=", "{{x}}", ";", "{{y}}">>)>>>>)

ConditionParams(operator) ==
    Obj(<<<<"field", Str(<<"x">>)>>, <<"operator", Str(<<operator>>)>>,
          <<"value", Num(1)>>>>)

\* the steps the workflows of Spec are made of
StepCatalog ==
    { Step("analyze",   "observer",   "analyze",      QueryParams, FALSE),
      Step("feedback",  "scc",        "sendFeedback", QueryParams, TRUE),
      Step("bogus",     "observer",   "bogus",        QueryParams, TRUE),
      Step("teleport",  "teleport",   "go",           Undef,       FALSE),
      Step("check",     "condition",  "",             ConditionParams("equals"), FALSE),
      Step("between",   "condition",  "",             ConditionParams("between"), TRUE),
      Step("wait",      "delay",      "",             Obj(<<<<"ms", Num(5)>>>>), FALSE),
      Step("tell",      "claudeTeam", "broadcast",
           Obj(<<<<"message", Str(<<"x is ", "{{x}}">>)>>>>), FALSE) }

\* every pair of a step type and an action: the actions each dispatcher
\* knows, one it does not know ("bogus"), and a type no dispatcher has
DispatchPairs ==
    ({"observer"} \X {"analyze", "getEvents", "getReferences", "storeEvent",
                      "bogus"})
    \cup ({"browser"} \X {"navigate"})
    \cup ({"claudeTeam"} \X {"broadcast", "askTeam", "getStatus", "bogus"})
    \cup ({"scc"} \X {"sendFeedback", "getHealth", "bogus"})
    \cup ({"teleport"} \X {"go"})

\* the steps the workflows of SpecDispatch are made of
DispatchCatalog ==
    { Step(pr[2], pr[1], pr[2], QueryParams, opt) :
          pr \in DispatchPairs, opt \in BOOLEAN }
    \cup { Step(op, "condition", "", ConditionParams(op), opt) :
              op \in {"equals", "exists", "between"}, opt \in BOOLEAN }
    \cup { Step("wait", "delay", "", Undef, opt) : opt \in BOOLEAN }

\* the initial contexts a caller supplies: one with a value for x, and for
\* SpecDispatch also none at all (`context = {}` then applies)
Contexts == { Obj(<<<<"x", Num(0)>>>>) }
AllContexts == Contexts \cup { Undef }

\* all workflows of at most n steps over a catalog
RECURSIVE Workflows(_, _)
Workflows(catalog, n) ==
    IF n = 0 THEN {<<>>}
    ELSE LET shorter == Workflows(catalog, n - 1)
         IN shorter \cup {Append(w, st) : w \in shorter, st \in catalog}

InitWith(catalog, n, contexts) ==
    /\ hasSteps \in BOOLEAN
    /\ steps \in IF hasSteps THEN Workflows(catalog, n) ELSE {<<>>}
    /\ context \in contexts
    /\ hub \in HubStates
    /\ pc = "init"
    /\ i = 0
    /\ results = <<>>
    /\ currentContext = <<>>
    /\ pending = NoCall
    /\ calls = <<>>
    /\ notes = <<>>
    /\ ret = NoReturn
    /\ fn = "none"
    /\ arg = Undef
    /\ outcome = NoCall
    /\ parked = NoRun
    /\ OuterIdle

Init == InitWith(StepCatalog, MaxSteps, Contexts)

Next ==
    \/ Start
    \/ \E r \in Responses : Respond(r)
    \/ Timeout
    \/ Resume
    \/ \E h \in HubStates : HubEvent(h)

Spec == Init /\ [][Next]_vars

\* the steps of the runs checked for termination: a request whose failure
\* halts, one whose failure does not, a timer, and a step that fails
\* without waiting for anything
TerminatingCatalog ==
    { Step("analyze",  "observer",  "analyze",      QueryParams, FALSE),
      Step("feedback", "scc",       "sendFeedback", QueryParams, TRUE),
      Step("wait",     "delay",     "",             Obj(<<<<"ms", Num(5)>>>>), FALSE),
      Step("between",  "condition", "",             ConditionParams("between"), TRUE) }

TerminatingResponses ==
    { NetworkError, Response("ok", TRUE, TRUE, Obj(<<<<"x", Num(1)>>>>)) }

InitTerminating == InitWith(TerminatingCatalog, MaxTerminatingSteps, Contexts)

NextTerminating ==
    \/ Start
    \/ \E r \in TerminatingResponses : Respond(r)
    \/ Timeout
    \/ Resume

\* the runs in which every request is answered and every timer fires: the
\* event loop runs a continuation as soon as the promise it awaits is
\* settled, and every pending fetch and sleep settles at some time
Fairness ==
    /\ WF_vars(Start)
    /\ WF_vars(\E r \in TerminatingResponses : Respond(r))
    /\ WF_vars(Timeout)
    /\ WF_vars(Resume)

SpecTerminating == InitTerminating /\ [][NextTerminating]_vars /\ Fairness

\* one-step workflows over every dispatcher and action, against every
\* kind of answer
InitDispatch == InitWith(DispatchCatalog, MaxDispatchSteps, AllContexts)

NextDispatch ==
    \/ Start
    \/ \E r \in AllResponses : Respond(r)
    \/ Timeout
    \/ Resume
    \/ \E h \in HubStates : HubEvent(h)

SpecDispatch == InitDispatch /\ [][NextDispatch]_vars

-----------------------------------------------------------------------------
(* The predefined workflows and the handler of POST /execute.              *)

WORKFLOW_ATHENA_CAPTURE_ANALYZE ==
    Workflow("Athena Capture & Analyze",
      << Step("Navigate to Athena", "browser", "navigate",
              Obj(<<<<"url", Str(<<"{{athenaUrl}}">>)>>>>), FALSE),
         Step("Wait for page load", "delay", "",
              Obj(<<<<"ms", Num(2000)>>>>), FALSE),
         Step("Capture patient data", "browser", "athenaCapture",
              Obj(<<<<"dataTypes", Arr(<<<<"0", Str(<<"all">>)>>>>)>>,
                    <<"patientId", Str(<<"{{patientId}}">>)>>>>), FALSE),
         Step("Store in Observer", "observer", "storeEvent",
              Obj(<<<<"type", Str(<<"OBSERVER_TELEMETRY">>)>>,
                    <<"source", Str(<<"athena-capture">>)>>,
                    <<"event",
                      Obj(<<<<"stage", Str(<<"athena_capture">>)>>,
                            <<"action", Str(<<"PATIENT_DATA_CAPTURED">>)>>,
                            <<"success", Bool(TRUE)>>,
                            <<"data", Str(<<"{{capturedData}}">>)>>>>)>>>>),
              FALSE),
         Step("Run AI analysis", "observer", "analyze",
              Obj(<<<<"provider", Str(<<"claude">>)>>,
                    <<"analysisType", Str(<<"summary">>)>>,
                    <<"maxEvents", Num(10)>>>>), FALSE),
         Step("Notify team", "claudeTeam", "broadcast",
              Obj(<<<<"message",
                      Str(<<"Athena capture complete for patient ",
                            "{{patientId}}">>)>>,
                    <<"category", Str(<<"update">>)>>>>), FALSE) >>)

WORKFLOW_ANOMALY_MONITOR ==
    Workflow("Anomaly Monitor",
      << Step("Get recent events", "observer", "getEvents",
              Obj(<<<<"limit", Num(100)>>,
                    <<"success", Str(<<"false">>)>>>>), FALSE),
         Step("Analyze anomalies", "observer", "analyze",
              Obj(<<<<"provider", Str(<<"claude">>)>>,
                    <<"analysisType", Str(<<"anomaly">>)>>,
                    <<"maxEvents", Num(50)>>>>), FALSE),
         Step("Send to SCC", "scc", "sendFeedback",
              Obj(<<<<"type", Str(<<"AI_REMEDIATION">>)>>,
                    <<"system", Str(<<"observer">>)>>,
                    <<"diagnosis", Str(<<"{{analysisResult}}">>)>>,
                    <<"priority", Str(<<"high">>)>>>>), FALSE),
         Step("Alert team", "claudeTeam", "broadcast",
              Obj(<<<<"message",
                      Str(<<"Anomaly detected: ", "{{anomalySummary}}">>)>>,
                    <<"category", Str(<<"heads_up">>)>>>>), FALSE) >>)

\* the handler spreading the workflow object over the context,
\* { context, ...workflow }: a context of the workflow's own wins
workflowToExecutePreferringOwnContext(body) ==
    LET ctx == IF body.context.t = "undefined" THEN Obj(<<>>) ELSE body.context
        of(w) == [valid |-> TRUE, error |-> <<>>, name |-> w.name,
                  hasSteps |-> w.hasSteps, steps |-> w.steps,
                  context |-> IF w.context.t # "undefined" THEN w.context
                              ELSE ctx]
        bad(message) == [valid |-> FALSE, error |-> message, name |-> "",
                         hasSteps |-> FALSE, steps |-> <<>>, context |-> ctx]
    IN  IF Truthy(body.workflowId)
        THEN CASE body.workflowId = Str(<<"athena-capture-analyze">>) ->
                      of(WORKFLOW_ATHENA_CAPTURE_ANALYZE)
               [] body.workflowId = Str(<<"anomaly-monitor">>) ->
                      of(WORKFLOW_ANOMALY_MONITOR)
               [] OTHER ->
                      bad(<<"Unknown workflow: ">>
                          \o ToStringToks(body.workflowId))
        ELSE IF body.workflow.t # "undefined"
        THEN of(body.workflow)
        ELSE bad(<<"Either workflowId or workflow object required">>)

\* const { workflowId, workflow, context = {} } = req.body, and what the
\* handler makes of them: the workflow to execute, { ...workflow, context }
\* with the context of the body over any context of the workflow object,
\* or the error of its 400
workflowToExecute(body) ==
    LET ctx == IF body.context.t = "undefined" THEN Obj(<<>>) ELSE body.context
        of(w) == [valid |-> TRUE, error |-> <<>>, name |-> w.name,
                  hasSteps |-> w.hasSteps, steps |-> w.steps, context |-> ctx]
        bad(message) == [valid |-> FALSE, error |-> message, name |-> "",
                         hasSteps |-> FALSE, steps |-> <<>>, context |-> ctx]
    IN  IF Truthy(body.workflowId)
        THEN CASE body.workflowId = Str(<<"athena-capture-analyze">>) ->
                      of(WORKFLOW_ATHENA_CAPTURE_ANALYZE)
               [] body.workflowId = Str(<<"anomaly-monitor">>) ->
                      of(WORKFLOW_ANOMALY_MONITOR)
               [] OTHER ->
                      bad(<<"Unknown workflow: ">>
                          \o ToStringToks(body.workflowId))
        ELSE IF body.workflow.t # "undefined"
        THEN of(body.workflow)
        ELSE bad(<<"Either workflowId or workflow object required">>)

\* res.status(400).json({ error, availableWorkflows? })
BadRequest(message) ==
    [NoRes EXCEPT !.code = 400,
                  !.keys = IF message[1] = "Unknown workflow: "
                           THEN {"error", "availableWorkflows"}
                           ELSE {"error"},
                  !.error = message]

\* res.json({ success, workflow, completedSteps, results, timestamp })
ExecuteResponse(result, name) ==
    [NoRes EXCEPT !.code = 200,
                  !.keys = {"success", "workflow", "completedSteps", "results",
                            "timestamp"},
                  !.success = result.success,
                  !.workflow = name,
                  !.completedSteps = result.completedSteps,
                  !.results = result.results]

\* res.status(500).json({ error: error.message, stack }); `stack` is
\* undefined outside development and then not part of the JSON
ServerError(message) ==
    [NoRes EXCEPT !.code = 500, !.keys = {"error"}, !.error = message]

\* router.post('/execute') up to its await: the 400 of a malformed body,
\* or the call of executeWorkflow(workflowToExecute) up to its first await
PostExecute ==
    /\ req.posted
    /\ pc = "init"
    /\ reply = NoRes
    /\ IF ~workflowToExecute(req).valid
       THEN /\ reply' = BadRequest(workflowToExecute(req).error)
            /\ UNCHANGED <<hasSteps, steps, context, hub, pc, i, results,
                           currentContext, pending, calls, notes, ret>>
            /\ UNCHANGED <<helperVars, req, healthVars, isConnected, clientVars, parked>>
       ELSE Start

\* the handler after `await executeWorkflow(...)`: the result is sent, or
\* the catch block answers the rejection
PostExecuteRespond ==
    /\ req.posted
    /\ pc \in {"returned", "rejected"}
    /\ reply = NoRes
    /\ reply' = IF pc = "returned"
                THEN ExecuteResponse(ret, workflowToExecute(req).name)
                ELSE ServerError(ret.error)
    /\ UNCHANGED <<hasSteps, steps, context, hub, pc, i, results,
                   currentContext, pending, calls, notes, ret>>
    /\ UNCHANGED <<helperVars, req, healthVars, isConnected, clientVars, parked>>

\* the steps of the custom workflows posted to the route
RouteCatalog ==
    { Step("analyze",  "observer", "analyze",      QueryParams, FALSE),
      Step("feedback", "scc",      "sendFeedback", QueryParams, TRUE),
      Step("wait",     "delay",    "",             Undef,       FALSE) }

RouteResponses ==
    { NetworkError,
      Response("ok", TRUE, TRUE, Obj(<<<<"x", Num(1)>>>>)),
      Response("ok", TRUE, TRUE,
               Obj(<<<<"analysisResult", Str(<<"spike">>)>>>>)) }

\* the bodies posted: workflowId absent, empty, one of the two known ids
\* or an unknown one; workflow absent, an object without steps or a custom
\* workflow; context absent or given
Requests ==
    { Request(id, w, c) :
        id \in { Undef, Str(<<>>), Str(<<"athena-capture-analyze">>),
                 Str(<<"anomaly-monitor">>), Str(<<"nightly">>) },
        w  \in { NoWorkflow, WorkflowWithoutSteps("custom") }
               \cup { Workflow("custom", sts) :
                          sts \in Workflows(RouteCatalog, MaxRouteSteps) }
               \cup { WithContext(Workflow("custom", sts),
                                  Obj(<<<<"x", Num(9)>>, <<"y", Str(<<"own">>)>>>>)) :
                          sts \in Workflows(RouteCatalog, MaxRouteSteps) },
        c  \in { Undef, Obj(<<<<"x", Num(0)>>>>) } }

\* the handler is entered with a body; `hasSteps`, `steps` and `context`
\* are those of the workflow it is going to hand to executeWorkflow
InitRoute ==
    /\ req \in Requests
    /\ hasSteps = workflowToExecute(req).hasSteps
    /\ steps = workflowToExecute(req).steps
    /\ context = workflowToExecute(req).context
    /\ hub \in {"none", "open"}
    /\ pc = "init"
    /\ i = 0
    /\ results = <<>>
    /\ currentContext = <<>>
    /\ pending = NoCall
    /\ calls = <<>>
    /\ notes = <<>>
    /\ ret = NoReturn
    /\ fn = "none"
    /\ arg = Undef
    /\ outcome = NoCall
    /\ parked = NoRun
    /\ reply = NoRes
    /\ health = NoHealth
    /\ probing = "none"
    /\ probed = <<>>
    /\ isConnected = (hub # "none")
    /\ ws = wsOf(hub)
    /\ sockets = socketsOf(hub)
    /\ reconnectTimer = FALSE
    /\ timers = 0
    /\ lastCall = "none"

NextRoute ==
    \/ PostExecute
    \/ \E r \in RouteResponses : Respond(r)
    \/ Timeout
    \/ Resume
    \/ PostExecuteRespond

SpecRoute == InitRoute /\ [][NextRoute]_vars

-----------------------------------------------------------------------------
(* getServicesHealth and the handler of GET /health.                       *)

\* the collaborators probed over HTTP, in the order of the probes
HealthServices == <<"observer", "claudeTeam", "sccSentinel">>

\* health.x = res.ok ? 'connected' : 'error', and 'offline' in the catch
probeStatus(r) ==
    IF r.net = "error" THEN "offline"
    ELSE IF r.ok THEN "connected"
    ELSE "error"

\* claudeTeamClient.isHubConnected() ? 'connected' : 'disconnected'
hubStatus(flag) == IF flag THEN "connected" ELSE "disconnected"

\* res.json({ status: allHealthy ? 'healthy' : 'degraded', services, timestamp })
HealthResponse(h) ==
    [NoRes EXCEPT !.code = 200,
                  !.keys = {"status", "services", "timestamp"},
                  !.status = IF /\ h.observer = "connected"
                                /\ h.claudeTeam = "connected"
                                /\ h.sccSentinel = "connected"
                                /\ h.claudeTeamWs = "connected"
                             THEN "healthy" ELSE "degraded",
                  !.services = h]

\* getServicesHealth answering from the `health` of the call before it,
\* when there was one
GetHealthCached ==
    /\ probing \in {"none", "done"}
    /\ IF probing = "done"
       THEN /\ health' = health
            /\ probing' = "done"
            /\ probed' = <<>>
            /\ reply' = HealthResponse(health)
       ELSE /\ health' = NoHealth
            /\ probing' = HealthServices[1]
            /\ probed' = <<>>
            /\ reply' = NoRes
    /\ UNCHANGED <<hasSteps, steps, context, hub, pc, i, results,
                   currentContext, pending, calls, notes, ret>>
    /\ UNCHANGED <<helperVars, req, isConnected, clientVars, parked>>

\* router.get('/health') calls getServicesHealth: `const health = {}` and
\* the first fetch, which is awaited
GetHealth ==
    /\ probing \in {"none", "done"}
    /\ health' = NoHealth
    /\ probing' = HealthServices[1]
    /\ probed' = <<>>
    /\ reply' = NoRes
    /\ UNCHANGED <<hasSteps, steps, context, hub, pc, i, results,
                   currentContext, pending, calls, notes, ret>>
    /\ UNCHANGED <<helperVars, req, isConnected, clientVars, parked>>

\* the fetch of the service being probed settles with r: its status is
\* set, and the next service is probed; after the last one the flag of
\* the hub client is read, the function returns and the handler answers
ProbeAnswer(r) ==
    /\ probing \in {"observer", "claudeTeam", "sccSentinel"}
    /\ probed' = Append(probed, r)
    /\ LET k == Len(probed) + 1
           h == [health EXCEPT ![probing] = probeStatus(r)]
       IN  IF k < Len(HealthServices)
           THEN /\ health' = h
                /\ probing' = HealthServices[k + 1]
                /\ reply' = reply
           ELSE /\ health' = [h EXCEPT !.claudeTeamWs = hubStatus(isConnected)]
                /\ probing' = "done"
                /\ reply' = HealthResponse(health')
    /\ UNCHANGED <<hasSteps, steps, context, hub, pc, i, results,
                   currentContext, pending, calls, notes, ret>>
    /\ UNCHANGED <<helperVars, req, isConnected, clientVars, parked>>

\* ws.on('error'): the flag is cleared, the socket stays as it is
HubError ==
    /\ hub # "none"
    /\ isConnected
    /\ isConnected' = FALSE
    /\ UNCHANGED <<hasSteps, steps, context, hub, pc, i, results,
                   currentContext, pending, calls, notes, ret>>
    /\ UNCHANGED <<quietVars, socketVars, parked>>

\* what a /health endpoint can answer: nothing, a 200, a 503
HealthAnswers ==
    { NetworkError,
      Response("ok", TRUE,  TRUE, Obj(<<<<"status", Str(<<"ok">>)>>>>)),
      Response("ok", FALSE, TRUE, ErrorPayload) }

InitHealth ==
    /\ hasSteps = FALSE
    /\ steps = <<>>
    /\ context = Undef
    /\ hub \in HubStates
    /\ pc = "init"
    /\ i = 0
    /\ results = <<>>
    /\ currentContext = <<>>
    /\ pending = NoCall
    /\ calls = <<>>
    /\ notes = <<>>
    /\ ret = NoReturn
    /\ fn = "none"
    /\ arg = Undef
    /\ outcome = NoCall
    /\ parked = NoRun
    /\ OuterIdle

NextHealth ==
    \/ GetHealth
    \/ \E r \in HealthAnswers : ProbeAnswer(r)
    \/ \E h \in HubStates : HubEvent(h)
    \/ HubError

SpecHealth == InitHealth /\ [][NextHealth]_vars

-----------------------------------------------------------------------------
(* The hub client's connection management (claude-team-client.js), with    *)
(* every socket it created followed through its readyState.                *)

\* what the engine sees of the client: whether `ws` is there and OPEN
hubOf(w, socks) == IF w # 0 /\ socks[w] = "OPEN" THEN "open" ELSE "none"

\* scheduleReconnect setting a new timer whether or not one is pending
scheduleReconnectUnguarded(handle, pendingTimers) ==
    [handle |-> TRUE, pendingTimers |-> pendingTimers + 1]

\* scheduleReconnect(): if (reconnectTimer) return; reconnectTimer =
\* setTimeout(...), given and giving the handle and the pending timeouts
scheduleReconnect(handle, pendingTimers) ==
    IF handle THEN [handle |-> handle, pendingTimers |-> pendingTimers]
    ELSE [handle |-> TRUE, pendingTimers |-> pendingTimers + 1]

\* the body of connectToHub, entered with the timer state as given:
\* nothing when `ws` is OPEN or CONNECTING; else `new WebSocket(HUB_URL)`
\* either gives the new current socket or throws, and the catch block
\* schedules a reconnect
connect(handle, pendingTimers) ==
    IF ws # 0 /\ sockets[ws] \in {"OPEN", "CONNECTING"}
    THEN /\ UNCHANGED socketVars
         /\ reconnectTimer' = handle
         /\ timers' = pendingTimers
    ELSE /\ Len(sockets) < MaxSockets
         /\ \/ /\ sockets' = Append(sockets, "CONNECTING")
               /\ ws' = Len(sockets) + 1
               /\ reconnectTimer' = handle
               /\ timers' = pendingTimers
            \/ /\ UNCHANGED socketVars
               /\ reconnectTimer' = scheduleReconnect(handle, pendingTimers).handle
               /\ timers' = scheduleReconnect(handle, pendingTimers).pendingTimers

\* what no action of the client touches
clientFrame ==
    <<hasSteps, steps, context, pc, i, results, currentContext, pending,
      calls, notes, ret, helperVars, routeVars, healthVars, parked>>

\* the application calls connectToHub()
ConnectToHub ==
    /\ lastCall' = "connectToHub"
    /\ connect(reconnectTimer, timers)
    /\ hub' = hubOf(ws', sockets')
    /\ UNCHANGED <<isConnected, clientFrame>>

\* the timeout of scheduleReconnect fires:
\* reconnectTimer = null; connectToHub()
ReconnectTimerFires ==
    /\ timers > 0
    /\ connect(FALSE, timers - 1)
    /\ hub' = hubOf(ws', sockets')
    /\ UNCHANGED <<isConnected, lastCall, clientFrame>>

\* the application calls disconnectFromHub(): the timer is cleared, the
\* socket is told to close (its `close` event comes later) and forgotten
DisconnectFromHub ==
    /\ lastCall' = "disconnectFromHub"
    /\ timers' = IF reconnectTimer THEN timers - 1 ELSE timers
    /\ reconnectTimer' = FALSE
    /\ sockets' = IF ws # 0 /\ sockets[ws] # "CLOSED"
                  THEN [sockets EXCEPT ![ws] = "CLOSING"]
                  ELSE sockets
    /\ ws' = 0
    /\ isConnected' = FALSE
    /\ hub' = hubOf(ws', sockets')
    /\ UNCHANGED clientFrame

\* ws.on('open') of socket s: the connection is established
SocketOpen(s) ==
    /\ sockets[s] = "CONNECTING"
    /\ sockets' = [sockets EXCEPT ![s] = "OPEN"]
    /\ isConnected' = TRUE
    /\ hub' = hubOf(ws, sockets')
    /\ UNCHANGED <<ws, reconnectTimer, timers, lastCall, clientFrame>>

\* the hub starts closing socket s (its close frame arrives): the
\* readyState changes, no event is emitted yet
SocketClosing(s) ==
    /\ sockets[s] = "OPEN"
    /\ sockets' = [sockets EXCEPT ![s] = "CLOSING"]
    /\ hub' = hubOf(ws, sockets')
    /\ UNCHANGED <<ws, isConnected, reconnectTimer, timers, lastCall,
                   clientFrame>>

\* ws.on('error') of socket s: the handshake or the connection failed
SocketError(s) ==
    /\ sockets[s] \in {"CONNECTING", "OPEN", "CLOSING"}
    /\ sockets' = [sockets EXCEPT ![s] = "CLOSING"]
    /\ isConnected' = FALSE
    /\ hub' = hubOf(ws, sockets')
    /\ UNCHANGED <<ws, reconnectTimer, timers, lastCall, clientFrame>>

\* ws.on('close') of socket s: isConnected = false; scheduleReconnect()
SocketClose(s) ==
    /\ sockets[s] \in {"OPEN", "CLOSING"}
    /\ sockets' = [sockets EXCEPT ![s] = "CLOSED"]
    /\ isConnected' = FALSE
    /\ reconnectTimer' = scheduleReconnect(reconnectTimer, timers).handle
    /\ timers' = scheduleReconnect(reconnectTimer, timers).pendingTimers
    /\ hub' = hubOf(ws, sockets')
    /\ UNCHANGED <<ws, lastCall, clientFrame>>

\* the module as loaded: ws = null, isConnected = false,
\* reconnectTimer = null
InitClient ==
    /\ hasSteps = FALSE
    /\ steps = <<>>
    /\ context = Undef
    /\ hub = "none"
    /\ pc = "init"
    /\ i = 0
    /\ results = <<>>
    /\ currentContext = <<>>
    /\ pending = NoCall
    /\ calls = <<>>
    /\ notes = <<>>
    /\ ret = NoReturn
    /\ fn = "none"
    /\ arg = Undef
    /\ outcome = NoCall
    /\ parked = NoRun
    /\ OuterIdle

NextClient ==
    \/ ConnectToHub
    \/ DisconnectFromHub
    \/ ReconnectTimerFires
    \/ \E s \in 1..Len(sockets) : SocketOpen(s)
    \/ \E s \in 1..Len(sockets) : SocketClosing(s)
    \/ \E s \in 1..Len(sockets) : SocketError(s)
    \/ \E s \in 1..Len(sockets) : SocketClose(s)

SpecClient == InitClient /\ [][NextClient]_vars

\* the runs in which a timeout that is pending fires at some time
SpecClientLive ==
    InitClient /\ [][NextClient]_vars /\ WF_vars(ReconnectTimerFires)

\* the steps of two concurrent runs, the answers they can get and the
\* contexts their callers supply
ConcurrentCatalog ==
    { Step("analyze", "observer",  "analyze", QueryParams, FALSE),
      Step("check",   "condition", "",        ConditionParams("equals"), FALSE) }

ConcurrentResponses ==
    { NetworkError,
      Response("ok", TRUE, TRUE, Obj(<<<<"x", Num(1)>>>>)),
      Response("ok", TRUE, TRUE, Obj(<<<<"x", Num(2)>>, <<"y", Str(<<"b">>)>>>>)) }

ConcurrentContexts ==
    { Obj(<<<<"x", Num(0)>>>>), Obj(<<<<"y", Str(<<"a">>)>>>>) }

\* two calls of executeWorkflow have been made and neither has begun
InitConcurrent ==
    /\ hasSteps = TRUE
    /\ steps \in Workflows(ConcurrentCatalog, MaxConcurrentSteps)
    /\ context \in ConcurrentContexts
    /\ hub \in HubStates
    /\ pc = "init"
    /\ i = 0
    /\ results = <<>>
    /\ currentContext = <<>>
    /\ pending = NoCall
    /\ calls = <<>>
    /\ notes = <<>>
    /\ ret = NoReturn
    /\ fn = "none"
    /\ arg = Undef
    /\ outcome = NoCall
    /\ parked \in { [NoRun EXCEPT !.hasSteps = TRUE, !.steps = w,
                                  !.context = c, !.pc = "init"] :
                        w \in Workflows(ConcurrentCatalog, MaxConcurrentSteps),
                        c \in ConcurrentContexts }
    /\ OuterIdle

NextConcurrent ==
    \/ Start
    \/ \E r \in ConcurrentResponses : Respond(r)
    \/ Resume
    \/ Switch

SpecConcurrent == InitConcurrent /\ [][NextConcurrent]_vars

\* the params of a condition step whose field is written as a placeholder
FieldByPlaceholder ==
    Obj(<<<<"field", Str(<<"{{k}}">>)>>, <<"operator", Str(<<"equals">>)>>,
          <<"value", Num(1)>>>>)

\* the steps the workflows of SpecBuiltins are made of: conditions on x and
\* on the field "{{k}}", delays with `ms`, with `ms: 0` and without `ms`,
\* and two steps that read `pass` and `delayed` by interpolation
BuiltinCatalog ==
    { Step("check",  "condition", "", ConditionParams("equals"), FALSE),
      Step("lookup", "condition", "", FieldByPlaceholder, FALSE),
      Step("wait",   "delay",     "", Obj(<<<<"ms", Num(5)>>>>), FALSE),
      Step("blink",  "delay",     "", Obj(<<<<"ms", Num(0)>>>>), FALSE),
      Step("pause",  "delay",     "", Undef, FALSE),
      Step("tell",   "claudeTeam", "broadcast",
           Obj(<<<<"message", Str(<<"pass=", "{{pass}}", " delayed=",
                                    "{{delayed}}">>)>>>>), FALSE),
      Step("store",  "observer",  "storeEvent",
           Obj(<<<<"passed", Str(<<"{{pass}}">>)>>>>), FALSE) }

\* the initial contexts of SpecBuiltins: x is 1 or is not, and k names x;
\* the last also holds a key that is literally "{{k}}"
BuiltinContexts ==
    { Obj(<<<<"x", Num(0)>>>>),
      Obj(<<<<"x", Num(1)>>>>),
      Obj(<<<<"k", Str(<<"x">>)>>, <<"x", Num(1)>>>>),
      Obj(<<<<"k", Str(<<"x">>)>>, <<"x", Num(0)>>, <<"{{k}}", Num(1)>>>>) }

InitBuiltins == InitWith(BuiltinCatalog, MaxBuiltinSteps, BuiltinContexts)

NextBuiltins ==
    \/ Start
    \/ \E r \in Responses : Respond(r)
    \/ Timeout
    \/ Resume
    \/ \E h \in HubStates : HubEvent(h)

SpecBuiltins == InitBuiltins /\ [][NextBuiltins]_vars

-----------------------------------------------------------------------------
(* The helpers called on their own: interpolateParams(arg, context) and    *)
(* evaluateCondition(arg, context) applied once to arguments drawn from    *)
(* bounded sets, outside any run.                                          *)

engineVars == <<hasSteps, steps, context, hub, pc, i, results,
                currentContext, pending, calls, notes, ret, parked,
                routeVars, healthVars, isConnected, clientVars>>

\* the values at the leaves of a params structure: strings without, with
\* one and with two placeholders, and scalars that are not strings
ParamLeaves ==
    { Str(<<"all">>),
      Str(<<"{{x}}">>),
      Str(<<"p", "{{x}}", "-", "{{y}}">>),
      Str(<<"{{delayed}}">>),
      Str(<<"{{constructor}}">>),
      Num(3), Bool(TRUE), Null }

\* the values nested at most d deep: a leaf, a mapping or an array
RECURSIVE ParamValues(_)
ParamValues(d) ==
    IF d = 0 THEN ParamLeaves
    ELSE ParamLeaves
         \cup { Obj(<<<<"in", v>>>>) : v \in ParamValues(d - 1) }
         \cup { Arr(<<<<"0", v>>>>) : v \in ParamValues(d - 1) }

\* the params structures: one key holding any value, next to a string
InterpolateArgs ==
    { Obj(<<<<"a", v>>>>) : v \in ParamValues(MaxDepth) }
    \cup { Obj(<<<<"a", v>>, <<"b", Str(<<"{{y}}">>)>>>>) : v \in ParamLeaves }

\* the contexts: empty; numbers, strings, booleans, null; the context a
\* delay step without `ms` leaves behind ({delayed: undefined}); values
\* that are an object or an array; a value that is itself a placeholder
InterpolateContexts ==
    { Obj(<<>>),
      Obj(<<<<"x", Num(1)>>>>),
      Obj(<<<<"x", Str(<<"v">>)>>, <<"y", Bool(TRUE)>>>>),
      Obj(<<<<"x", Null>>>>),
      Obj(<<<<"delayed", Undef>>>>),
      Obj(<<<<"y", Obj(<<<<"z", Num(1)>>>>)>>>>),
      Obj(<<<<"x", Arr(<<<<"0", Str(<<"a">>)>>, <<"1", Str(<<"b">>)>>>>)>>>>),
      Obj(<<<<"x", Str(<<"{{y}}">>)>>, <<"y", Num(2)>>>>) }

InitHelper(args, contexts) ==
    /\ fn = "none"
    /\ arg \in args
    /\ context \in contexts
    /\ outcome = NoCall
    /\ hasSteps = FALSE
    /\ steps = <<>>
    /\ hub = "none"
    /\ pc = "init"
    /\ i = 0
    /\ results = <<>>
    /\ currentContext = <<>>
    /\ pending = NoCall
    /\ calls = <<>>
    /\ notes = <<>>
    /\ ret = NoReturn
    /\ parked = NoRun
    /\ OuterIdle

\* interpolateParams(arg, context) is called and returns
CallInterpolateParams ==
    /\ fn = "none"
    /\ fn' = "interpolateParams"
    /\ outcome' = Value(interpolateParams(arg, context.o))
    /\ UNCHANGED <<engineVars, arg>>

\* interpolateParams is called a second time, on what it returned
CallInterpolateParamsAgain ==
    /\ fn = "interpolateParams"
    /\ fn' = "interpolateParamsAgain"
    /\ arg' = outcome.v
    /\ outcome' = Value(interpolateParams(outcome.v, context.o))
    /\ UNCHANGED engineVars

\* the params of a condition: a field the contexts hold and one they do
\* not, every operator and one that is unknown, values of every kind
ConditionFields == {"n", "m"}
ConditionOperators ==
    {"equals", "notEquals", "greaterThan", "lessThan", "contains", "exists",
     "between"}
ConditionValues ==
    { Num(3), Num(5), Str(<<"5">>), Str(<<"b">>), Str(<<"u">>), Bool(TRUE),
      Null, Undef }
ConditionArgs ==
    { Obj(<<<<"field", Str(<<f>>)>>, <<"operator", Str(<<op>>)>>,
            <<"value", v>>>>) :
          f \in ConditionFields, op \in ConditionOperators,
          v \in ConditionValues }

\* the contexts a condition is evaluated in
ConditionContexts ==
    { Obj(<<>>),
      Obj(<<<<"n", Num(5)>>>>),
      Obj(<<<<"n", Num(3)>>>>),
      Obj(<<<<"n", Num(12)>>>>),
      Obj(<<<<"n", Str(<<"5">>)>>>>),
      Obj(<<<<"n", Str(<<"1", "2">>)>>>>),
      Obj(<<<<"n", Str(<<"a", "b", "c">>)>>>>),
      Obj(<<<<"n", Bool(TRUE)>>>>),
      Obj(<<<<"n", Null>>>>),
      Obj(<<<<"n", Undef>>>>) }

\* evaluateCondition(arg, context) is called and returns or throws
CallEvaluateCondition ==
    /\ fn = "none"
    /\ fn' = "evaluateCondition"
    /\ outcome' = evaluateCondition(arg, context.o)
    /\ UNCHANGED <<engineVars, arg>>

InitCondition == InitHelper(ConditionArgs, ConditionContexts)

NextCondition == CallEvaluateCondition

SpecCondition == InitCondition /\ [][NextCondition]_vars

InitInterpolate == InitHelper(InterpolateArgs, InterpolateContexts)

NextInterpolate == CallInterpolateParams \/ CallInterpolateParamsAgain

SpecInterpolate == InitInterpolate /\ [][NextInterpolate]_vars

-----------------------------------------------------------------------------
(* What the claims speak of.                                               *)

\* the run has ended by returning a WorkflowResult
Returned == pc = "returned"

\* the number of steps whose dispatch has begun, and of those whose
\* executeStep promise the engine has taken up again
Attempted == Len(calls)
Handled   == IF pc = "await" THEN Len(calls) - 1 ELSE Len(calls)

\* result k records the failure of a step that is not optional
RequiredFailure(k) == ~results[k].success /\ ~steps[k].optional

\* result k records the failure of an optional step
OptionalFailure(k) == ~results[k].success /\ steps[k].optional

-----------------------------------------------------------------------------
\* C1: once a step that is not optional has failed, no later step is
\* attempted (no dispatch after it, no further StepResult), and the results
\* up to and including the failing step are returned.
C1_NoStepAfterRequiredFailure ==
    \A k \in 1..Len(results) :
        RequiredFailure(k) =>
            /\ Len(results) = k
            /\ Attempted = k
            /\ Returned
            /\ ret.status = "returned"
            /\ ret.results = results

\* a three-step workflow stopped by the failure of its second step
C1_Witness ==
    /\ Len(steps) = 3
    /\ Len(results) = 2
    /\ results[1].success
    /\ RequiredFailure(2)
    /\ Returned

\* C2 (as stated): a halted run reports completedSteps equal to the number
\* of steps attempted, failing step included, i.e. to results.length.
C2_CompletedCountsFailingStep ==
    (Returned /\ ~ret.success) =>
        /\ ret.completedSteps = Len(ret.results)
        /\ ret.completedSteps + (Len(steps) - Attempted) = Len(steps)

\* C2 (amended): a halted run reports completedSteps equal to the number of
\* steps attempted before the failing one, i.e. to results.length - 1, so
\* that completedSteps + 1 + the unattempted steps is steps.length.
C2_CompletedCountsStepsBeforeFailure ==
    (Returned /\ ~ret.success) =>
        /\ ret.completedSteps = Len(ret.results) - 1
        /\ Len(ret.results) = Attempted
        /\ ret.completedSteps + 1 + (Len(steps) - Attempted) = Len(steps)

\* a three-step workflow whose second step failed: completedSteps is 1
C2_Witness ==
    /\ Returned
    /\ ~ret.success
    /\ Len(steps) = 3
    /\ Len(ret.results) = 2
    /\ ret.completedSteps = 1

\* C3: at every point exactly one StepResult has been appended per step
\* the engine has handled, in step order, each under its step's name.
C3_OneResultPerStepInOrder ==
    /\ Len(results) = Handled
    /\ Len(results) <= Len(steps)
    /\ \A k \in 1..Len(results) : results[k].step = steps[k].name

\* three steps handled, a failure between two successes, the last
\* notification attempted while the socket could not send
C3_Witness ==
    /\ Len(results) = 3
    /\ results[1].success
    /\ OptionalFailure(2)
    /\ results[3].success
    /\ hub = "broken"
    /\ Returned

\* C4: the returned WorkflowResult has success false exactly when a step
\* that is not optional failed; with only optional failures it is true.
C4_SuccessIffNoRequiredFailure ==
    Returned =>
        /\ ret.success = (\A k \in 1..Len(ret.results) : ~RequiredFailure(k))
        /\ ret.success => Len(ret.results) = Len(steps)
        /\ ~ret.success => RequiredFailure(Len(ret.results))

\* a run that returned success although one of its steps failed
C4_Witness ==
    /\ Returned
    /\ ret.success
    /\ \E k \in 1..Len(ret.results) : OptionalFailure(k)

\* C5: the failure of an optional step is recorded with success false and
\* the next step is attempted; when every failure is optional all steps
\* are attempted and results.length is steps.length.
C5_OptionalFailureContinues ==
    /\ \A k \in 1..Len(results) :
           OptionalFailure(k) =>
               /\ results[k].error # <<>>
               /\ IF k < Len(steps) THEN Attempted > k
                  ELSE Returned /\ ret.success
    /\ (Returned /\ \A k \in 1..Len(results) : ~RequiredFailure(k)) =>
           /\ Attempted = Len(steps)
           /\ Len(ret.results) = Len(steps)

\* step 2 of 3 is optional and failed, step 3 was attempted and succeeded
C5_Witness ==
    /\ Len(steps) = 3
    /\ Returned
    /\ ret.success
    /\ ret.results[1].success
    /\ OptionalFailure(2)
    /\ ret.results[3].success
    /\ Len(ret.results) = 3

-----------------------------------------------------------------------------
\* the names a context of the model can hold
ContextKeys == {"x", "y", "error", "pass", "delayed", "broadcast", "asked"}

\* the value of `key` that step k must see: that of the latest successful
\* object-shaped result among steps 1..k-1 that has the key, else the
\* caller's
SeenBy(key, k) ==
    LET writers == { j \in 1..(k - 1) :
                        /\ results[j].success
                        /\ results[j].result.t = "object"
                        /\ HasKey(results[j].result.o, key) }
        last    == CHOOSE j \in writers : \A j2 \in writers : j2 <= j
    IN  IF writers # {} THEN Get(results[last].result.o, key)
        ELSE IF context.t = "object" THEN Get(context.o, key)
        ELSE Undef

\* the text "{{key}}" becomes for step k
ShownTo(key, placeholder, k) ==
    IF SeenBy(key, k).t = "undefined" THEN <<placeholder>>
    ELSE ToStringToks(SeenBy(key, k))

\* C6: step k's params are interpolated against the initial context
\* overlaid, in step order, by the object-shaped results of the successful
\* steps before it (later results win, also over the caller's keys;
\* results that are not objects and failed steps add nothing).
C6_InterpolationSeesMergedContext ==
    /\ \A k \in 1..Len(calls) :
           Get(steps[k].params.o, "q") = Str(<<"v=", "{{x}}", ";", "{{y}}">>) =>
               Get(calls[k].params.o, "q") =
                   Str(<<"v=">> \o ShownTo("x", "{{x}}", k)
                        \o <<";">> \o ShownTo("y", "{{y}}", k))
    /\ pc \in {"await", "returned"} =>
           /\ \A key \in ContextKeys :
                  Get(currentContext, key) = SeenBy(key, Len(results) + 1)
           /\ \A j \in 1..Len(currentContext) :
                  currentContext[j][1] \in ContextKeys

\* the caller gave x = 0, step 1 returned {x: 1}, step 2 returned
\* {x: 2, y: "b"}, and step 3 was sent "v=2;b"
C6_Witness ==
    /\ Len(calls) = 3
    /\ Len(results) >= 2
    /\ context = Obj(<<<<"x", Num(0)>>>>)
    /\ results[1].success /\ Get(results[1].result.o, "x") = Num(1)
    /\ results[2].success /\ Get(results[2].result.o, "x") = Num(2)
    /\ Get(calls[3].params.o, "q") = Str(<<"v=", "2", ";", "b">>)

-----------------------------------------------------------------------------
\* C7: for a workflow that has a steps array the promise of
\* executeWorkflow is never rejected by a step-level failure: every error
\* thrown by a step is captured as a failed StepResult carrying its message,
\* and the caller receives a WorkflowResult, also when the run is halted.
C7_StepFailuresNeverEscape ==
    hasSteps =>
        /\ pc # "rejected"
        /\ ret.status # "rejected"
        /\ \A k \in 1..Len(results) :
               calls[k].settled.k = "throw" =>
                   /\ ~results[k].success
                   /\ results[k].error = calls[k].settled.e
                   /\ results[k].error # <<>>
        /\ pc = "returned" => (ret.status = "returned" /\ ret.results = results)

\* an unknown action was survived, then a network error halted the run,
\* and the caller still got a WorkflowResult holding both failures
C7_Witness ==
    /\ hasSteps
    /\ Returned
    /\ ~ret.success
    /\ Len(ret.results) = 2
    /\ ret.results[1].error = <<"Unknown observer action: ", "bogus">>
    /\ ret.results[2].error = <<"fetch failed">>

\* result r records a configuration error raised at step dispatch
IsConfigError(r) ==
    /\ ~r.success
    /\ r.error # <<>>
    /\ r.error[1] \in {"Unknown step type: ", "Unknown observer action: ",
                       "Unknown claudeTeam action: ", "Unknown scc action: ",
                       "Unknown operator: "}

\* C8 (as stated): a configuration error at step dispatch always halts the
\* run, also when the step is optional: no later step is attempted.
C8_ConfigErrorAlwaysHalts ==
    \A k \in 1..Len(results) :
        IsConfigError(results[k]) =>
            /\ Len(results) = k
            /\ Attempted = k

\* C8 (amended): a configuration error at step dispatch is handled like any
\* other step failure: it halts the run when the step is not optional, and
\* when the step is optional the next step is attempted.
C8_ConfigErrorHaltsUnlessOptional ==
    \A k \in 1..Len(results) :
        IsConfigError(results[k]) =>
            IF steps[k].optional
            THEN IF k < Len(steps) THEN Attempted > k
                 ELSE Returned /\ ret.success
            ELSE /\ Len(results) = k
                 /\ Attempted = k
                 /\ Returned
                 /\ ~ret.success

\* an optional condition step with an unknown operator failed first, and
\* a second step was attempted and handled after it
C8_Witness ==
    /\ Len(results) >= 2
    /\ steps[1].type = "condition"
    /\ steps[1].optional
    /\ IsConfigError(results[1])
    /\ results[1].error = <<"Unknown operator: ", "between">>

\* what each dispatcher knows
StepTypes == {"observer", "browser", "claudeTeam", "scc", "delay", "condition"}
ObserverActions == {"analyze", "getEvents", "getReferences", "storeEvent"}
ClaudeTeamActions == {"broadcast", "askTeam", "getStatus"}
SccActions == {"sendFeedback", "getHealth"}

UnknownTypeOrAction(step) ==
    \/ step.type \notin StepTypes
    \/ step.type = "observer" /\ step.action \notin ObserverActions
    \/ step.type = "claudeTeam" /\ step.action \notin ClaudeTeamActions
    \/ step.type = "scc" /\ step.action \notin SccActions

\* C9: a step whose type is unknown, or whose action is unknown to its
\* dispatcher, issues no remote request and gives a failed StepResult whose
\* error names the unknown type or action, whatever its optional flag.
C9_UnknownTypeOrActionFails ==
    \A k \in 1..Len(calls) :
        UnknownTypeOrAction(steps[k]) =>
            /\ calls[k].fetches = 0
            /\ calls[k].resp = NoResponse
            /\ calls[k].settled.k = "throw"
            /\ k <= Len(results) =>
                   /\ ~results[k].success
                   /\ Len(results[k].error) = 2
                   /\ results[k].error[2] =
                          (IF steps[k].type \in StepTypes THEN steps[k].action
                           ELSE steps[k].type)

\* an optional scc step with the action "bogus" was recorded as failed
C9_Witness ==
    /\ Len(results) = 1
    /\ steps[1].type = "scc"
    /\ steps[1].action = "bogus"
    /\ steps[1].optional
    /\ ~results[1].success
    /\ results[1].error = <<"Unknown scc action: ", "bogus">>
    /\ calls[1].fetches = 0

\* the answer r is a remote call failure: no answer at all, a status that
\* is not 2xx, or a body carrying an explicit error
RemoteFailure(r) ==
    \/ r.net = "error"
    \/ r.net = "ok" /\ ~r.ok
    \/ r.net = "ok" /\ r.json /\ r.body.t = "object" /\ HasKey(r.body.o, "error")

\* C10: every remote call failure (network error, non-2xx response,
\* explicit error payload) gives a StepResult with success false and an
\* error message, is not merged into the context, and halts the run unless
\* the step is optional.
C10_RemoteFailureFailsTheStep ==
    \A k \in 1..Len(results) :
        RemoteFailure(calls[k].resp) =>
            /\ ~results[k].success
            /\ results[k].error # <<>>
            /\ ~HasKey(currentContext, "error")
            /\ ~steps[k].optional => (Returned /\ ~ret.success)

-----------------------------------------------------------------------------
\* C11: a workflow whose `steps` is missing or empty is rejected
\* immediately with no partial result: the call never returns a successful
\* WorkflowResult, attempts no step, and has emitted no notification when it
\* rejects.
C11_MissingOrEmptyStepsRejected ==
    (~hasSteps \/ steps = <<>>) =>
        /\ Attempted = 0
        /\ ~(Returned /\ ret.success)
        /\ pc # "init" => (pc = "rejected" /\ ret.status = "rejected")
        /\ pc = "rejected" => notes = <<>>

-----------------------------------------------------------------------------
\* where a path leads nowhere
Absent == [t |-> "absent", s |-> <<>>, n |-> 0, o |-> <<>>]

\* the value found in v by following a path of keys
RECURSIVE At(_, _)
At(v, path) ==
    IF path = <<>> THEN v
    ELSE IF v.t \in {"object", "array"} /\ HasKey(v.o, path[1])
    THEN At(Get(v.o, path[1]), Tail(path))
    ELSE Absent

\* every path of keys into a params structure of the model
ParamKeys == {"a", "b", "in", "0"}
RECURSIVE PathsUpTo(_)
PathsUpTo(n) ==
    IF n = 0 THEN {<<>>}
    ELSE LET shorter == PathsUpTo(n - 1)
         IN shorter \cup {Append(p, k) : p \in shorter, k \in ParamKeys}
ParamPaths == PathsUpTo(MaxDepth + 1)

\* the pieces of a sequence of token sequences, end to end
RECURSIVE Flatten(_)
Flatten(pieces) ==
    IF pieces = <<>> THEN <<>> ELSE pieces[1] \o Flatten(Tail(pieces))

\* the context holds `key` as a property of its own
ContextHasKey(key) == HasKey(context.o, key)

\* the value the context gives for `key` is not undefined
ContextDefines(key) == Lookup(context.o, key).t # "undefined"

-----------------------------------------------------------------------------
\* a and b are deep-equal: the same kind of value, the same text or number,
\* and for mappings and arrays the same keys with deep-equal values
RECURSIVE DeepEqual(_, _)
DeepEqual(a, b) ==
    /\ a.t = b.t
    /\ CASE a.t = "string" -> Text(a.s) = Text(b.s)
         [] a.t \in {"number", "boolean"} -> a.n = b.n
         [] a.t \in {"object", "array"} ->
                /\ {a.o[j][1] : j \in 1..Len(a.o)} = {b.o[j][1] : j \in 1..Len(b.o)}
                /\ \A j \in 1..Len(a.o) :
                       DeepEqual(a.o[j][2], Get(b.o, a.o[j][1]))
         [] OTHER -> TRUE

\* no placeholder anywhere in `arg` names a key of the context
NoContextKeyNamed ==
    \A p \in ParamPaths :
        At(arg, p).t = "string" =>
            \A j \in 1..Len(At(arg, p).s) :
                LET key == PlaceholderKey(At(arg, p).s[j])
                IN key = "" \/ ~ContextHasKey(key)

\* C13: when no key of the context is named by a placeholder in params,
\* interpolateParams(params, context) is deep-equal to params: the same
\* keys, the same kinds of value and the same values at every depth.
C13_NoMatchIsIdentity ==
    (fn = "interpolateParams" /\ NoContextKeyNamed) =>
        /\ outcome.k = "value"
        /\ DeepEqual(outcome.v, arg)

\* the value found in v by following a path of keys through mappings only
RECURSIVE AtMapping(_, _)
AtMapping(v, path) ==
    IF path = <<>> THEN v
    ELSE IF v.t = "object" /\ HasKey(v.o, path[1])
    THEN AtMapping(Get(v.o, path[1]), Tail(path))
    ELSE Absent

\* C14: interpolateParams preserves structure: a scalar that is not a
\* string passes through unchanged, a nested mapping comes out as a mapping
\* with the same keys, and an array value passes through unchanged, still
\* an array with the same elements.
C14_StructurePreserved ==
    fn = "interpolateParams" =>
        \A p \in ParamPaths :
            LET before == AtMapping(arg, p)
                after  == AtMapping(outcome.v, p)
            IN /\ before.t \in {"number", "boolean", "null"} => after = before
               /\ before.t = "object" =>
                      /\ after.t = "object"
                      /\ [j \in 1..Len(after.o) |-> after.o[j][1]] =
                             [j \in 1..Len(before.o) |-> before.o[j][1]]
               /\ before.t = "array" => after = before

-----------------------------------------------------------------------------
-----------------------------------------------------------------------------
\* the arguments of the call of evaluateCondition
CondField    == Text(Get(arg.o, "field").s)
CondOperator == Text(Get(arg.o, "operator").s)
CondValue    == Get(arg.o, "value")
FieldValue   == Lookup(context.o, CondField)
Pass(b)      == Value(Obj(<<<<"pass", Bool(b)>>>>))

\* the characters of String(v)
StringForm(v) == Chars(ToStringToks(v))

\* C16: evaluateCondition({field, operator, value}, context) returns {pass}
\* computed on context[field]: equals is strict equality, notEquals its
\* negation, greaterThan and lessThan the order of numbers, contains
\* whether the string form of the field value contains value, exists
\* whether the field value is neither undefined nor null; any other
\* operator raises an error naming the operator.
C16_ConditionOperators ==
    fn = "evaluateCondition" =>
        CASE CondOperator = "equals" ->
                 outcome = Pass(FieldValue = CondValue)
          [] CondOperator = "notEquals" ->
                 outcome = Pass(FieldValue # CondValue)
          [] CondOperator = "greaterThan" ->
                 /\ outcome \in {Pass(TRUE), Pass(FALSE)}
                 /\ (FieldValue.t = "number" /\ CondValue.t = "number") =>
                        outcome = Pass(FieldValue.n > CondValue.n)
          [] CondOperator = "lessThan" ->
                 /\ outcome \in {Pass(TRUE), Pass(FALSE)}
                 /\ (FieldValue.t = "number" /\ CondValue.t = "number") =>
                        outcome = Pass(FieldValue.n < CondValue.n)
          [] CondOperator = "contains" ->
                 outcome = Pass(\E pre, post \in 0..Len(StringForm(FieldValue)) :
                                   /\ pre + Len(StringForm(CondValue)) + post
                                          = Len(StringForm(FieldValue))
                                   /\ SubSeq(StringForm(FieldValue), pre + 1,
                                             pre + Len(StringForm(CondValue)))
                                          = StringForm(CondValue))
          [] CondOperator = "exists" ->
                 outcome = Pass(FieldValue.t \notin {"undefined", "null"})
          [] OTHER ->
                 /\ outcome.k = "throw"
                 /\ outcome.e = <<"Unknown operator: ", CondOperator>>

\* for the context {n: 5}, `n lessThan 3` gave pass false
C16_Witness ==
    /\ fn = "evaluateCondition"
    /\ context = Obj(<<<<"n", Num(5)>>>>)
    /\ CondField = "n"
    /\ CondOperator = "lessThan"
    /\ CondValue = Num(3)
    /\ outcome = Pass(FALSE)

-----------------------------------------------------------------------------
\* step k is a condition step whose field is written "{{k}}", dispatched
\* while the context gave k a value
FieldWasPlaceholder(k) ==
    /\ steps[k].type = "condition"
    /\ Get(steps[k].params.o, "field") = Str(<<"{{k}}">>)
    /\ SeenBy("k", k).t = "string"

\* what the condition of step k passes when its field is looked up under key
PassUnder(key, k) ==
    Value(Obj(<<<<"pass", Bool(SeenBy(key, k) = Get(steps[k].params.o, "value"))>>>>))

\* C17 (as stated): the field of a condition step is used as given, with no
\* interpolation: a field written "{{k}}" is looked up under the literal
\* key "{{k}}", not under the key that context[k] names.
C17_FieldUsedAsGiven ==
    \A k \in 1..Len(calls) :
        FieldWasPlaceholder(k) =>
            /\ Get(calls[k].params.o, "field") = Str(<<"{{k}}">>)
            /\ calls[k].settled = PassUnder("{{k}}", k)

\* C17 (amended): the field of a condition step is interpolated like every
\* other param before the condition is evaluated: a field written "{{k}}"
\* is looked up under the key that context[k] names when the context
\* defines k.
C17_FieldIsInterpolated ==
    \A k \in 1..Len(calls) :
        FieldWasPlaceholder(k) =>
            /\ Get(calls[k].params.o, "field") = Str(SeenBy("k", k).s)
            /\ calls[k].settled = PassUnder(Text(SeenBy("k", k).s), k)

\* with the context {k: "x", x: 0, "{{k}}": 1} the condition
\* `{{k}} equals 1` was evaluated on x and did not pass
C17_Witness ==
    /\ Len(results) >= 1
    /\ FieldWasPlaceholder(1)
    /\ Get(context.o, "{{k}}") = Num(1)
    /\ Get(context.o, "x") = Num(0)
    /\ results[1].success
    /\ results[1].result = Obj(<<<<"pass", Bool(FALSE)>>>>)

-----------------------------------------------------------------------------
\* step k is a condition step with an operator evaluateCondition supports
SupportedCondition(k) ==
    /\ steps[k].type = "condition"
    /\ Get(steps[k].params.o, "operator") \in
           { Str(<<op>>) : op \in {"equals", "notEquals", "greaterThan",
                                   "lessThan", "contains", "exists"} }

\* the text `pass` has in a string once step k has merged it
PassText(k) ==
    IF results[k].result = Obj(<<<<"pass", Bool(TRUE)>>>>) THEN "true"
    ELSE "false"

\* C18: a condition step with a supported operator never halts or branches
\* the workflow: whether it passes or not it is recorded as a successful
\* StepResult {pass}, the step after it in the list is the next one
\* attempted (or the run completes when it was the last), and its result is
\* merged into the context under `pass`, where the next step reads it by
\* interpolation.
C18_ConditionNeverBranches ==
    \A k \in 1..Len(results) :
        SupportedCondition(k) =>
            /\ results[k].success
            /\ results[k].result \in { Obj(<<<<"pass", Bool(b)>>>>) : b \in BOOLEAN }
            /\ IF k < Len(steps)
               THEN /\ Attempted > k
                    /\ calls[k + 1].step = steps[k + 1].name
                    /\ steps[k + 1].name = "tell" =>
                           SubSeq(Get(calls[k + 1].params.o, "message").s, 1, 2)
                               = <<"pass=", PassText(k)>>
                    /\ steps[k + 1].name = "store" =>
                           Get(calls[k + 1].params.o, "passed")
                               = Str(<<PassText(k)>>)
               ELSE /\ Returned
                    /\ ret.success
                    /\ ret.completedSteps = Len(steps)
            /\ Len(results) = k =>
                   Get(currentContext, "pass") = Get(results[k].result.o, "pass")

\* a condition that did not pass was followed by the next step, which was
\* sent "false" for {{pass}}, and the run completed successfully
C18_Witness ==
    /\ Returned
    /\ ret.success
    /\ Len(results) = 2
    /\ SupportedCondition(1)
    /\ results[1].result = Obj(<<<<"pass", Bool(FALSE)>>>>)
    /\ steps[2].name = "store"
    /\ Get(calls[2].params.o, "passed") = Str(<<"false">>)
    /\ results[2].success

-----------------------------------------------------------------------------
\* C19: a delay step suspends for resolvedParams.ms, or for the default
\* 1000 ms when `ms` is absent, and returns {delayed: ms} where ms is the
\* duration it waited, so that a delay step without `ms` returns
\* delayed = 1000.
C19_DelayReturnsTimeWaited ==
    \A k \in 1..Len(results) :
        steps[k].type = "delay" =>
            /\ calls[k].slept =
                   (IF HasKey(calls[k].params.o, "ms")
                    THEN Get(calls[k].params.o, "ms") ELSE Num(DefaultDelay))
            /\ results[k].success
            /\ results[k].result = Obj(<<<<"delayed", calls[k].slept>>>>)

-----------------------------------------------------------------------------
\* how the promise of step k settles when the hub is connected, given the
\* context the step runs in and the answer its remote request got
SettledWhenConnected(k, ctx) ==
    LET call == executeStep(steps[k], ctx, "open")
    IN  IF call.k = "fetch" THEN fetchJson(calls[k].resp)
        ELSE IF call.k = "sleep" THEN Value(call.v)
        ELSE call

\* the WorkflowResult of the run from step j + 1 on when every hub
\* notification is delivered, for the answers the remote services gave
RECURSIVE ResultWhenConnected(_, _, _)
ResultWhenConnected(j, ctx, res) ==
    IF j = Len(steps) THEN CompleteResult(res, ctx)
    ELSE IF j + 1 > Len(calls) THEN NoReturn
    ELSE LET step    == steps[j + 1]
             settled == SettledWhenConnected(j + 1, ctx)
         IN  IF settled.k = "value"
             THEN ResultWhenConnected(j + 1, mergeResult(ctx, settled.v),
                      Append(res, StepSuccess(step.name, settled.v)))
             ELSE IF stopsWorkflow(step)
             THEN HaltedResult(j, Append(res, StepFailure(step.name, settled.e)),
                               step)
             ELSE ResultWhenConnected(j + 1, ctx,
                      Append(res, StepFailure(step.name, settled.e)))

\* C20: notifications never affect control flow: whatever the hub socket
\* does during the run (connected, not connected, send failing), the run of
\* a workflow is not rejected, no result is added and no step is failed by a
\* notification, and the WorkflowResult returned is the one the same
\* workflow gives with the same dispatcher outcomes when every
\* notification is delivered.
C20_NotificationsNeverAffectResult ==
    hasSteps =>
        /\ pc # "rejected"
        /\ Len(results) = Handled
        /\ \A k \in 1..Len(results) :
               results[k].success = (calls[k].settled.k = "value")
        /\ Returned => ret = ResultWhenConnected(0, context.o, <<>>)

\* a three-step run, its second step optional and failed, returned the
\* result of the connected run while the socket was failing to send
C20_Witness ==
    /\ Returned
    /\ Len(ret.results) = 3
    /\ ret.results[1].success
    /\ ~ret.results[2].success
    /\ hub = "broken"
    /\ Len(notes) = 5
    /\ ret = ResultWhenConnected(0, context.o, <<>>)

-----------------------------------------------------------------------------
\* the run completed: it went through the whole list of steps
Completed == Returned /\ ret.success

\* C21: the engine issues its notifications in this order: one
\* workflow-start broadcast before the first step is attempted; after each
\* step it has handled exactly one broadcast, of category `update` when the
\* step succeeded and `blocker` when it failed; and one workflow-complete
\* broadcast after the last step exactly when the run was not halted.
C21_NotificationOrder ==
    /\ pc = "init" => (notes = <<>> /\ Attempted = 0)
    /\ pc # "init" =>
           /\ Len(notes) >= 1
           /\ notes[1] = [kind |-> "start", category |-> "update"]
           /\ Len(notes) = 1 + Len(results) + (IF Completed THEN 1 ELSE 0)
           /\ \A k \in 1..Len(results) :
                  notes[k + 1] =
                      IF results[k].success
                      THEN [kind |-> "step", category |-> "update"]
                      ELSE [kind |-> "failed", category |-> "blocker"]
           /\ Completed =>
                  notes[Len(notes)] = [kind |-> "complete", category |-> "update"]
           /\ \A n \in 1..Len(notes) :
                  notes[n].kind = "complete" => (Completed /\ n = Len(notes))
           /\ \A n \in 2..Len(notes) : notes[n].kind # "start"

\* a run halted at its third step after an optional failure at its second:
\* start, update, blocker, blocker, and no completion broadcast
C21_Witness ==
    /\ Returned
    /\ ~ret.success
    /\ Len(results) = 3
    /\ notes = << [kind |-> "start", category |-> "update"],
                  [kind |-> "step", category |-> "update"],
                  [kind |-> "failed", category |-> "blocker"],
                  [kind |-> "failed", category |-> "blocker"] >>

-----------------------------------------------------------------------------
\* the context step k of the running call must see when the call is alone:
\* its caller's context overlaid by the results of its own steps before k
RECURSIVE OwnContextBefore(_)
OwnContextBefore(k) ==
    IF k <= 1 THEN (IF context.t = "object" THEN context.o ELSE <<>>)
    ELSE IF results[k - 1].success
    THEN mergeResult(OwnContextBefore(k - 1), results[k - 1].result)
    ELSE OwnContextBefore(k - 1)

\* C22: two concurrent runs are independent: at every point of every
\* interleaving of their synchronous stretches the running call has
\* interpolated each of its steps against its own context only, holds the
\* context its own results give, and returns the WorkflowResult it gives
\* alone with the same dispatcher outcomes.  (The other call is the
\* running one in the state where the two have switched.)
C22_ConcurrentRunsIndependent ==
    /\ \A k \in 1..Len(calls) :
           calls[k].params = resolveParams(steps[k], OwnContextBefore(k))
    /\ pc \in {"await", "returned"} =>
           currentContext = OwnContextBefore(Len(results) + 1)
    /\ Returned => ret = ResultWhenConnected(0, context.o, <<>>)

\* both calls are past their first step and waiting for their second at
\* the same time, one with x = 1 and the other with x = 2 in its context
C22_Witness ==
    /\ pc = "await"
    /\ parked.pc = "await"
    /\ Len(results) = 1
    /\ Len(parked.results) = 1
    /\ Get(currentContext, "x") = Num(1)
    /\ Get(parked.currentContext, "x") = Num(2)
    /\ Get(calls[2].params.o, "q") = Str(<<"v=", "1", ";", "{{y}}">>)

-----------------------------------------------------------------------------
\* C23: no retries: in one run the dispatcher is invoked at most once for
\* each step, in the order of the steps, also after a failure (no further
\* invocation for any step already handled), and each invocation has
\* issued at most one remote request, which got at most one answer.
C23_NoRetries ==
    /\ Attempted <= Len(steps)
    /\ Attempted = (IF pc = "await" THEN i + 1
                    ELSE IF pc = "returned" /\ ~ret.success THEN i + 1
                    ELSE i)
    /\ Handled = Len(results)
    /\ \A k \in 1..Len(calls) :
           /\ calls[k].step = steps[k].name
           /\ calls[k].fetches <= 1
           /\ calls[k].resp # NoResponse => calls[k].fetches = 1
           /\ k <= Len(results) => results[k].step = calls[k].step

\* a step whose one request failed was optional, the run went on to the
\* next step, and the failed step was not dispatched again
C23_Witness ==
    /\ Len(results) = 2
    /\ ~results[1].success
    /\ results[1].error = <<"fetch failed">>
    /\ calls[1].fetches = 1
    /\ calls[1].resp = NetworkError
    /\ results[2].success
    /\ Attempted = 2

\* C24: a run follows RUNNING(i) -> RUNNING(i+1) -> ... -> DONE | HALTED:
\* the step index never decreases and grows by exactly one, only when the
\* step at the index succeeded or failed being optional; the step
\* dispatched is always the one at the index; DONE is entered with the
\* index at steps.length; HALTED is entered on the failure of a step that
\* is not optional, at that step's index; nothing is attempted and nothing
\* appended after DONE or HALTED.
C24_RunStateMachine ==
    [][ /\ i' \in {i, i + 1}
        /\ i' = i + 1 =>
               /\ pc = "await"
               /\ Len(results') = Len(results) + 1
               /\ results'[i + 1].step = steps[i + 1].name
               /\ results'[i + 1].success \/ steps[i + 1].optional
        /\ Len(calls') \in {Len(calls), Len(calls) + 1}
        /\ Len(calls') = Len(calls) + 1 =>
               /\ pc' = "await"
               /\ Len(calls') = i' + 1
               /\ calls'[i' + 1].step = steps[i' + 1].name
        /\ (pc # "returned" /\ pc' = "returned" /\ ret'.success) =>
               i' = Len(steps)
        /\ (pc # "returned" /\ pc' = "returned" /\ ~ret'.success) =>
               /\ pc = "await"
               /\ i' = i
               /\ ~results'[Len(results')].success
               /\ results'[Len(results')].step = steps[i + 1].name
               /\ ~steps[i + 1].optional
        /\ pc = "returned" =>
               UNCHANGED <<pc, i, results, calls, notes, ret, currentContext>>
      ]_vars

\* a run of three steps is DONE after an optional failure in the middle
C24_Witness ==
    /\ Returned
    /\ ret.success
    /\ i = 3
    /\ Len(results) = 3
    /\ results[1].success
    /\ OptionalFailure(2)
    /\ results[3].success

-----------------------------------------------------------------------------
\* the promise of the step at the index is not settled yet
Waiting == pending.k \in {"fetch", "sleep"}

\* C25: when every request is answered and every timer fires, a run over
\* a list of steps returns its WorkflowResult (DONE or HALTED) at some
\* time, having attempted at most steps.length steps; and for as long as
\* the promise of a step is not settled the run stays at that step: it
\* attempts no later step, appends no result, sends no notification and
\* returns nothing, there being no timeout that would settle it.
C25_RunTerminatesUnlessCallHangs ==
    /\ hasSteps => <>Returned
    /\ [](Attempted <= Len(steps))
    /\ [](Waiting => pc = "await" /\ ret = NoReturn /\ Attempted = i + 1)
    /\ [][ (Waiting /\ pending' = pending) =>
               UNCHANGED <<pc, i, results, currentContext, calls, notes, ret>>
         ]_vars
    /\ [][ (Waiting /\ pending' # pending) =>
               /\ pending'.k \in {"value", "throw"}
               /\ UNCHANGED <<pc, i, results, currentContext, notes, ret>>
         ]_vars

\* a run of two steps has returned after a request that failed and a timer
\* that fired
C25_Witness ==
    /\ Returned
    /\ Attempted = 2
    /\ Len(steps) = 2
    /\ calls[1].resp = NetworkError
    /\ calls[2].slept = Num(5)
    /\ calls[2].settled = Value(Obj(<<<<"delayed", Num(5)>>>>))

-----------------------------------------------------------------------------
\* the run has returned the halted WorkflowResult
Halted == Returned /\ ~ret.success

\* C26: a halted WorkflowResult names the step that stopped it: its error
\* is `Workflow stopped at step: ` followed by the step name of the last
\* entry of its results; that entry is a failure of a step that is not
\* optional and no other entry is; every earlier entry is a success or
\* the failure of an optional step; and the result has no context.
C26_HaltedResultNamesStep ==
    Halted =>
        LET n == Len(ret.results)
        IN  /\ n >= 1
            /\ ret.results = results
            /\ ret.error = <<"Workflow stopped at step: ", ret.results[n].step>>
            /\ ret.results[n].step = steps[n].name
            /\ RequiredFailure(n)
            /\ \A k \in 1..(n - 1) : ret.results[k].success \/ OptionalFailure(k)
            /\ \A k \in 1..n : RequiredFailure(k) => k = n
            /\ ret.context = Undef

\* a run halted at its third step, after a success that was merged into
\* the context and the failure of an optional step
C26_Witness ==
    /\ Halted
    /\ Len(results) = 3
    /\ results[1].success
    /\ currentContext # context.o
    /\ OptionalFailure(2)
    /\ RequiredFailure(3)
    /\ ret.error = <<"Workflow stopped at step: ", "analyze">>

-----------------------------------------------------------------------------
\* every step of the run succeeded or failed being optional
NothingRequiredFailed ==
    \A k \in 1..Len(results) : results[k].success \/ steps[k].optional

\* C27: a run in which every step completed or every failure was optional
\* returns {success: true, completedSteps: steps.length, results, context}
\* with one result per step and the final merged context; and the
\* predefined anomaly-monitor workflow, posted with no context and with
\* every request answered, returns success with completedSteps 4.
C27_CompleteResult ==
    /\ (Returned /\ NothingRequiredFailed) =>
           /\ ret = [status |-> "returned", success |-> TRUE,
                     completedSteps |-> Len(steps), results |-> results,
                     context |-> Obj(currentContext), error |-> <<>>]
           /\ Len(ret.results) = Len(steps)
           /\ currentContext = OwnContextBefore(Len(steps) + 1)
    /\ (/\ Returned
        /\ req.workflowId = Str(<<"anomaly-monitor">>)
        /\ req.context = Undef
        /\ \A k \in 1..Len(calls) :
               calls[k].fetches = 1 => calls[k].resp \in RouteResponses \ {NetworkError})
       => /\ steps = WORKFLOW_ANOMALY_MONITOR.steps
          /\ ret.success
          /\ ret.completedSteps = 4
          /\ Len(ret.results) = 4
          /\ \A k \in 1..4 : ret.results[k].success

\* the anomaly-monitor workflow has returned after its four steps, the
\* analysis found in the second answer having gone into the feedback
C27_Witness ==
    /\ Returned
    /\ req.workflowId = Str(<<"anomaly-monitor">>)
    /\ req.context = Undef
    /\ ret.success
    /\ ret.completedSteps = 4
    /\ Get(calls[3].params.o, "diagnosis") = Str(<<"spike">>)
    /\ Get(ret.context.o, "broadcast") = Bool(TRUE)

-----------------------------------------------------------------------------
\* the handler of POST /execute has answered
Answered == req.posted /\ reply # NoRes

\* C28: the response of POST /execute carries the WorkflowResult of the
\* run: success, completedSteps and results, and for a successful run the
\* final context, for a halted run the error naming the step.
C28_ResponseCarriesWorkflowResult ==
    (Answered /\ Returned) =>
        /\ {"success", "completedSteps", "results"} \subseteq reply.keys
        /\ reply.success = ret.success
        /\ reply.completedSteps = ret.completedSteps
        /\ reply.results = ret.results
        /\ ret.success => "context" \in reply.keys
        /\ ~ret.success => "error" \in reply.keys /\ reply.error = ret.error

\* the body names a workflow that is not known, or names none and brings
\* none either
MalformedInvocation ==
    \/ /\ Truthy(req.workflowId)
       /\ req.workflowId \notin { Str(<<"athena-capture-analyze">>),
                                  Str(<<"anomaly-monitor">>) }
    \/ /\ ~Truthy(req.workflowId)
       /\ req.workflow.t = "undefined"

\* C29: POST /execute answers 400, with no step attempted and no
\* notification sent, exactly when the invocation is malformed; every
\* other invocation, a run that halts included, is answered 200 with the
\* structured result.
C29_BadRequestExactlyWhenMalformed ==
    Answered =>
        /\ MalformedInvocation =>
               reply.code = 400 /\ calls = <<>> /\ notes = <<>>
        /\ ~MalformedInvocation =>
               /\ reply.code = 200
               /\ {"success", "completedSteps", "results"} \subseteq reply.keys

-----------------------------------------------------------------------------
\* the status the claim gives to a probe that ended as r
ClaimedStatus(r) ==
    CASE r = NetworkError -> "offline"
      [] r.ok             -> "connected"
      [] OTHER            -> "error"

\* C30: getServicesHealth never throws (the handler never answers 500)
\* and returns one status per service; the status of each HTTP
\* collaborator is `connected`, `error` or `offline` according to how its
\* own probe of this call ended and to nothing else; `claudeTeamWs` is
\* `connected` or `disconnected` as the flag of the hub client is when the
\* function reads it, whatever the state of the socket; and every call
\* starts from an empty `health` and probes all three services again.
C30_HealthReflectsProbesAndFlag ==
    /\ [](reply.code # 500)
    /\ [](probing = "done" =>
            /\ Len(probed) = 3
            /\ health.observer = ClaimedStatus(probed[1])
            /\ health.claudeTeam = ClaimedStatus(probed[2])
            /\ health.sccSentinel = ClaimedStatus(probed[3])
            /\ health.claudeTeamWs \in {"connected", "disconnected"}
            /\ reply.code = 200
            /\ reply.services = health)
    /\ [](\A k \in 1..3 :
            IF k <= Len(probed)
            THEN health[HealthServices[k]] = ClaimedStatus(probed[k])
            ELSE health[HealthServices[k]] = "")
    /\ [][ (probing # "done" /\ probing' = "done") =>
               health'.claudeTeamWs =
                   (IF isConnected THEN "connected" ELSE "disconnected")
         ]_vars
    /\ [][ (probing = "done" /\ probing' # "done") =>
               health' = NoHealth /\ probed' = <<>> /\ probing' = "observer"
         ]_vars

\* a call has returned three different statuses, and `disconnected` for
\* the hub while its socket is open (the flag was cleared by an error)
C30_Witness ==
    /\ probing = "done"
    /\ health = [observer |-> "connected", claudeTeam |-> "error",
                 sccSentinel |-> "offline", claudeTeamWs |-> "disconnected"]
    /\ hub = "open"
    /\ reply.status = "degraded"

-----------------------------------------------------------------------------
\* this step of the run appends the failure of the step at the index
StepFails ==
    /\ pc = "await"
    /\ Len(results') = Len(results) + 1
    /\ ~results'[Len(results')].success

\* C31: a failed step leaves the execution context unchanged: the step
\* of the run that records a failure does not change currentContext, and
\* when the failed step was optional the next step is interpolated
\* against the very context the failed step was given.
C31_FailureLeavesContextUnchanged ==
    [][ StepFails =>
            /\ currentContext' = currentContext
            /\ calls[i + 1].params = resolveParams(steps[i + 1], currentContext)
            /\ Len(calls') = Len(calls) + 1 =>
                   calls'[i + 2].params =
                       resolveParams(steps[i + 2], currentContext)
      ]_vars

\* after a success that was merged and the failure of an optional step
\* the third step has been given the context of the second
C31_Witness ==
    /\ Len(calls) = 3
    /\ results[1].success
    /\ Len(results) >= 2
    /\ OptionalFailure(2)
    /\ Get(calls[2].params.o, "q") = Str(<<"v=", "1", ";", "{{y}}">>)
    /\ calls[3].params = calls[2].params

-----------------------------------------------------------------------------
\* step k hands a message to the hub client
TellsTeam(k) ==
    steps[k].type = "claudeTeam" /\ steps[k].action \in {"broadcast", "askTeam"}

\* C32: a claudeTeam step with action broadcast or askTeam always
\* succeeds, with {broadcast: true} or {asked: true}, whatever the state
\* of the hub socket: the message is sent only when the socket is open and
\* working, is dropped otherwise, and the step is recorded with success
\* true either way.
C32_TeamStepAlwaysSucceeds ==
    \A k \in 1..Len(calls) :
        TellsTeam(k) =>
            /\ calls[k].fetches = 0
            /\ calls[k].handed \in {"sent", "dropped"}
            /\ calls[k].settled =
                   Value(IF steps[k].action = "broadcast"
                         THEN Obj(<<<<"broadcast", Bool(TRUE)>>>>)
                         ELSE Obj(<<<<"asked", Bool(TRUE)>>>>))
            /\ k <= Len(results) =>
                   results[k] = StepSuccess(steps[k].name, calls[k].settled.v)

\* an askTeam step whose message was dropped is recorded as a success
C32_Witness ==
    /\ Len(results) = 1
    /\ steps[1].action = "askTeam"
    /\ calls[1].handed = "dropped"
    /\ results[1] = StepSuccess("askTeam", Obj(<<<<"asked", Bool(TRUE)>>>>))
    /\ Returned
    /\ ret.success

-----------------------------------------------------------------------------
\* the client's current socket is open
CurrentSocketOpen == ws # 0 /\ sockets[ws] = "OPEN"

\* C33: the flag isConnected is true exactly when the client's current
\* socket is open, whatever the order of the calls of connectToHub and
\* disconnectFromHub and of the open, close and error events of the
\* sockets, those of a socket already replaced included.
C33_FlagTracksCurrentSocket == isConnected <=> CurrentSocketOpen

\* C34: after disconnectFromHub, and until connectToHub is called again,
\* no reconnect timer is pending or gets scheduled and no socket is
\* created.
C34_StaysDisconnected ==
    /\ [](lastCall = "disconnectFromHub" => ~reconnectTimer /\ timers = 0)
    /\ [][ (lastCall = "disconnectFromHub" /\ lastCall' = "disconnectFromHub")
               => Len(sockets') = Len(sockets)
         ]_vars

\* the sockets the client created that are open or connecting
LiveSockets == {s \in 1..Len(sockets) : sockets[s] \in {"OPEN", "CONNECTING"}}

\* C35: at most one reconnect timer is pending, and it is the one
\* `reconnectTimer` holds; a socket is created only when the current one
\* is neither open nor connecting, so at most one socket of the client is
\* open or connecting, and it is the current one; every close event
\* leaves a reconnect timer pending, and a pending timer fires (the
\* reconnect attempt) unless disconnectFromHub clears it first.
C35_OneTimerOneSocket ==
    /\ [](timers <= 1 /\ (reconnectTimer <=> timers = 1))
    /\ [](Cardinality(LiveSockets) <= 1 /\ LiveSockets \subseteq {ws})
    /\ [][ Len(sockets') > Len(sockets) =>
               /\ ws = 0 \/ sockets[ws] \notin {"OPEN", "CONNECTING"}
               /\ Len(sockets') = Len(sockets) + 1
               /\ ws' = Len(sockets')
         ]_vars
    /\ [][ (\E s \in 1..Len(sockets) :
                sockets[s] # "CLOSED" /\ sockets'[s] = "CLOSED")
               => reconnectTimer' /\ timers' = 1
         ]_vars
    /\ (timers > 0 /\ Len(sockets) < MaxSockets)
           ~> (timers = 0 \/ Len(sockets) = MaxSockets)

\* a socket that was replaced while closing has emitted its close event
\* and a reconnect timer is pending, with the newer socket open
C35_Witness ==
    /\ Len(sockets) = 2
    /\ sockets[1] = "CLOSED"
    /\ ws = 2
    /\ sockets[2] = "OPEN"
    /\ reconnectTimer
    /\ timers = 1

-----------------------------------------------------------------------------
\* the string leaf of `arg` at path p still names, in one of its
\* placeholders, a value the context defines
NamesDefined(p) ==
    /\ At(arg, p).t = "string"
    /\ \E j \in 1..Len(At(arg, p).s) :
           /\ PlaceholderKey(At(arg, p).s[j]) # ""
           /\ ContextDefines(PlaceholderKey(At(arg, p).s[j]))

\* C36: interpolation is a single pass: a string leaf that is one
\* placeholder naming a string of the context becomes exactly that string,
\* placeholders in it included, even when the context defines them; and
\* a second application to the result changes it exactly when the first
\* pass put in a placeholder that the context defines.
C36_SinglePass ==
    /\ fn = "interpolateParams" =>
           \A p \in ParamPaths :
               (/\ At(arg, p).t = "string"
                /\ Len(At(arg, p).s) = 1
                /\ PlaceholderKey(At(arg, p).s[1]) # ""
                /\ Lookup(context.o, PlaceholderKey(At(arg, p).s[1])).t = "string")
               => At(outcome.v, p) =
                      Lookup(context.o, PlaceholderKey(At(arg, p).s[1]))
    /\ fn = "interpolateParamsAgain" =>
           /\ outcome.k = "value"
           /\ outcome.v # arg <=> \E p \in ParamPaths : NamesDefined(p)
           /\ \A p \in ParamPaths :
                  (At(arg, p).t = "string" /\ ~NamesDefined(p)) =>
                      At(outcome.v, p) = At(arg, p)

\* with {x: "{{y}}", y: 2} the first pass has put `{{y}}` for `{{x}}` and
\* left it, and the second pass has made it `2`
C36_Witness ==
    /\ fn = "interpolateParamsAgain"
    /\ context = Obj(<<<<"x", Str(<<"{{y}}">>)>>, <<"y", Num(2)>>>>)
    /\ At(arg, <<"a", "in">>) = Str(<<"{{y}}">>)
    /\ At(outcome.v, <<"a", "in">>) = Str(<<"2">>)

-----------------------------------------------------------------------------
\* C37: a condition on a field the context does not have, with a value
\* that is defined, gives pass false for equals, greaterThan, lessThan,
\* contains and exists, and pass true for notEquals.
C37_AbsentFieldFailsAllButNotEquals ==
    (/\ fn = "evaluateCondition"
     /\ ~ContextHasKey(CondField)
     /\ CondValue.t # "undefined"
     /\ CondOperator \in {"equals", "notEquals", "greaterThan", "lessThan",
                          "contains", "exists"})
    => outcome = Pass(CondOperator = "notEquals")

-----------------------------------------------------------------------------
\* the `context` of the body, {} when the body has none
TopLevelContext == IF req.context.t = "undefined" THEN Obj(<<>>) ELSE req.context

\* C38: a run started by POST /execute starts from the top-level context
\* of the body, empty when there is none: its first step is interpolated
\* against that context whatever context the inline workflow object
\* carries; and a body with a known workflowId runs that predefined
\* workflow whether or not it also brings a workflow object.
C38_TopLevelContextAndWorkflowId ==
    (req.posted /\ pc # "init") =>
        /\ context = TopLevelContext
        /\ Len(calls) >= 1 =>
               calls[1].params = resolveParams(steps[1], TopLevelContext.o)
        /\ (Returned /\ ret.success /\ results = <<>>) =>
               ret.context = TopLevelContext
        /\ req.workflowId = Str(<<"athena-capture-analyze">>) =>
               steps = WORKFLOW_ATHENA_CAPTURE_ANALYZE.steps
        /\ req.workflowId = Str(<<"anomaly-monitor">>) =>
               steps = WORKFLOW_ANOMALY_MONITOR.steps
        /\ ~Truthy(req.workflowId) => steps = req.workflow.steps

\* an inline workflow with a context of its own, posted next to a
\* top-level context, has had its first step interpolated with the
\* top-level x
C38_Witness ==
    /\ req.posted
    /\ ~Truthy(req.workflowId)
    /\ req.workflow.context = Obj(<<<<"x", Num(9)>>, <<"y", Str(<<"own">>)>>>>)
    /\ req.context = Obj(<<<<"x", Num(0)>>>>)
    /\ Len(calls) >= 1
    /\ Get(calls[1].params.o, "q") = Str(<<"v=", "0", ";", "{{y}}">>)

====
